---------------------------- MODULE Spec2Model ----------------------------
(***************************************************************************)
(* A model of guit ("write yourself a git"): the object codec and store    *)
(* (src/guit/io.py), the KVLM and tree grammars (src/guit/classes.py),     *)
(* the path service (src/guit/utils.py) and the reference resolver         *)
(* (src/guit/ref.py).                                                      *)
(*                                                                         *)
(* Bytes are integers 0..255 and a byte string is a sequence of them.      *)
(* Python indices are 0-based; the helpers below keep Python's indexing.   *)
(* A Python call either returns or raises: Ret(v) / Raise(e).              *)
(***************************************************************************)
EXTENDS Integers, Sequences, FiniteSets, TLC

VARIABLES
    dirs,   \* fan-out directories existing under .git/objects
    files,  \* object files: identifier -> file content (compressed bytes)
    refs,   \* reference files under .git: path -> file content (text)
    mem,    \* the in-memory object last returned by object_read
    arg,    \* the input of the operation under study
    out,    \* the result of the last operation
    pc,     \* position of the caller
    nops,   \* number of store operations performed
    fsys    \* files and directories outside the object store: path -> entry

vars == <<dirs, files, refs, mem, arg, out, pc, nops, fsys>>

----------------------------------------------------------------------------
(* Byte values used by the code. *)
NUL == 0
LF == 10
SP == 32
ZERO == 48      \* ord("0")

Ret(v) == [tag |-> "ok", val |-> v, err |-> ""]
Raise(e) == [tag |-> "raise", val |-> <<>>, err |-> e]
None == [tag |-> "none", val |-> <<>>, err |-> ""]

Min(a, b) == IF a < b THEN a ELSE b
Max(a, b) == IF a > b THEN a ELSE b

\* Python's normalisation of a slice or search index against a length.
PyIndex(i, n) == IF i < 0 THEN Max(n + i, 0) ELSE Min(i, n)

\* raw[a:b]
PySlice(raw, a, b) ==
    LET lo == PyIndex(a, Len(raw))
        hi == PyIndex(b, Len(raw))
    IN  IF hi <= lo THEN <<>> ELSE SubSeq(raw, lo + 1, hi)

\* raw[a:]
PyFrom(raw, a) == PySlice(raw, a, Len(raw))

\* raw.find(bytes([c]), start): the first 0-based index >= start holding c, or -1.
Find(raw, c, start) ==
    LET s == PyIndex(start, Len(raw))
        hits == {i \in (s + 1)..Len(raw) : raw[i] = c}
    IN  IF start > Len(raw) \/ hits = {} THEN -1
        ELSE (CHOOSE i \in hits : \A j \in hits : i <= j) - 1

\* raw.startswith(p)
StartsWith(raw, p) == Len(raw) >= Len(p) /\ SubSeq(raw, 1, Len(p)) = p

\* v.replace(b"\n", b"\n ")
RECURSIVE EscapeLF(_)
EscapeLF(v) ==
    IF v = <<>> THEN <<>>
    ELSE IF Head(v) = LF THEN <<LF, SP>> \o EscapeLF(Tail(v))
    ELSE <<Head(v)>> \o EscapeLF(Tail(v))

\* v.replace(b"\n ", b"\n"): left to right, non-overlapping
RECURSIVE UnescapeLF(_)
UnescapeLF(v) ==
    IF v = <<>> THEN <<>>
    ELSE IF Len(v) >= 2 /\ v[1] = LF /\ v[2] = SP
         THEN <<LF>> \o UnescapeLF(SubSeq(v, 3, Len(v)))
    ELSE <<Head(v)>> \o UnescapeLF(Tail(v))

----------------------------------------------------------------------------
(***************************************************************************)
(* KVLM (classes.py).  A Python dict of a commit or tag is modelled as     *)
(*   [fields |-> <<entry, ...>>, hasmsg |-> BOOLEAN, msg |-> bytes]        *)
(* fields are the keys other than None in insertion order, each            *)
(*   [key |-> bytes, list |-> BOOLEAN, vals |-> <<bytes, ...>>]            *)
(* list = FALSE is a bytes value (vals has one element), list = TRUE a     *)
(* Python list.  hasmsg says whether the key None is present.              *)
(***************************************************************************)
EmptyDict == [fields |-> <<>>, hasmsg |-> FALSE, msg |-> <<>>]

HasKey(dct, key) == \E i \in 1..Len(dct.fields) : dct.fields[i].key = key

KeyIndex(dct, key) == CHOOSE i \in 1..Len(dct.fields) : dct.fields[i].key = key

\* A parser that overwrites the slot of a key it has already seen.
DictAddOverwrite(dct, key, value) ==
    IF HasKey(dct, key)
    THEN [dct EXCEPT !.fields[KeyIndex(dct, key)] =
             [key |-> key, list |-> FALSE, vals |-> <<value>>]]
    ELSE [dct EXCEPT !.fields =
             Append(@, [key |-> key, list |-> FALSE, vals |-> <<value>>])]

\* "Don't overwrite existing data contents": a key seen again has its slot
\* promoted to a list, or its list extended; a new key is inserted last.
DictAdd(dct, key, value) ==
    IF HasKey(dct, key)
    THEN LET i == KeyIndex(dct, key)
             e == dct.fields[i]
         IN  [dct EXCEPT !.fields[i] =
                 [key |-> key, list |-> TRUE, vals |-> Append(e.vals, value)]]
    ELSE [dct EXCEPT !.fields =
             Append(@, [key |-> key, list |-> FALSE, vals |-> <<value>>])]

\* The while loop of kvlm_parse (classes.py 148-152): from `end`, the next LF that
\* is not followed by a space.  A position that comes back means the loop
\* never ends.
RECURSIVE ValueEnd(_, _, _)
ValueEnd(raw, end, fuel) ==
    LET e == Find(raw, LF, end + 1)
    IN  IF fuel = 0 THEN Raise("NonTermination")
        ELSE IF e + 1 >= Len(raw) THEN Raise("IndexError")
        ELSE IF raw[e + 2] # SP THEN Ret(e)
        ELSE ValueEnd(raw, e, fuel - 1)

RECURSIVE KvlmParseFrom(_, _, _, _)
KvlmParseFrom(raw, start, dct, fuel) ==
    LET spc == Find(raw, SP, start)
        nl == Find(raw, LF, start)
    IN  IF spc < 0 \/ (nl >= 0 /\ nl < spc)
        THEN IF nl # start THEN Raise("AssertionError")
             ELSE Ret([dct EXCEPT !.hasmsg = TRUE, !.msg = PyFrom(raw, start + 1)])
        ELSE IF fuel = 0 THEN Raise("RecursionError")
        ELSE LET key == PySlice(raw, start, spc)
                 end == ValueEnd(raw, spc, Len(raw) + 2)
             IN  IF end.tag # "ok" THEN end
                 ELSE KvlmParseFrom(raw, end.val + 1,
                          DictAdd(dct, key, UnescapeLF(PySlice(raw, spc + 1, end.val))),
                          fuel - 1)

kvlm_parse(raw) == KvlmParseFrom(raw, 0, EmptyDict, Len(raw) + 2)

RECURSIVE SerializeVals(_, _)
SerializeVals(k, vals) ==
    IF vals = <<>> THEN <<>>
    ELSE k \o <<SP>> \o EscapeLF(Head(vals)) \o <<LF>> \o SerializeVals(k, Tail(vals))

RECURSIVE SerializeFields(_)
SerializeFields(fields) ==
    IF fields = <<>> THEN <<>>
    ELSE SerializeVals(Head(fields).key, Head(fields).vals)
             \o SerializeFields(Tail(fields))

kvlm_serialize(kvlm) ==
    IF ~kvlm.hasmsg THEN Raise("KeyError")
    ELSE Ret(SerializeFields(kvlm.fields) \o <<LF>> \o kvlm.msg)

----------------------------------------------------------------------------
(***************************************************************************)
(* Tree grammar (classes.py).  A leaf is                                   *)
(*   [mode |-> bytes, path |-> str, sha |-> str]                           *)
(* a str being the sequence of its code points.                            *)
(***************************************************************************)
RawShaLen == 20     \* to_bytes(20, "big")
HexShaLen == 40     \* format(raw_sha, "040x")

IsHex(c) == c \in (48..57) \cup (97..102) \cup (65..70)

\* The value of a hexadecimal digit, either case.
HexVal(c) == IF c \in 48..57 THEN c - 48 ELSE IF c \in 97..102 THEN c - 87 ELSE c - 55

\* The lowercase digit of a value 0..15.
HexChar(n) == IF n < 10 THEN 48 + n ELSE 87 + n

RECURSIVE StripZeros(_)
StripZeros(s) == IF s # <<>> /\ Head(s) = ZERO THEN StripZeros(Tail(s)) ELSE s

Zeros(n) == [i \in 1..n |-> ZERO]

\* int(sha, 16).to_bytes(20, "big")
HexToRaw(sha) ==
    IF sha = <<>> \/ \E i \in 1..Len(sha) : ~IsHex(sha[i]) THEN Raise("ValueError")
    ELSE LET sig == StripZeros(sha)
         IN  IF Len(sig) > HexShaLen THEN Raise("OverflowError")
             ELSE LET d == Zeros(HexShaLen - Len(sig)) \o sig
                  IN  Ret([i \in 1..RawShaLen |->
                              16 * HexVal(d[2 * i - 1]) + HexVal(d[2 * i])])

\* format(int.from_bytes(raw, "big"), "040x")
RawToHex(raw) ==
    LET h == [i \in 1..(2 * Len(raw)) |->
                 IF i % 2 = 1 THEN HexChar(raw[(i + 1) \div 2] \div 16)
                 ELSE HexChar(raw[i \div 2] % 16)]
        sig == StripZeros(h)
    IN  IF Len(sig) >= HexShaLen THEN sig ELSE Zeros(HexShaLen - Len(sig)) \o sig

\* str.encode("utf-8"), for code points below 0x800.
RECURSIVE Utf8Encode(_)
Utf8Encode(str) ==
    IF str = <<>> THEN <<>>
    ELSE IF Head(str) < 128 THEN <<Head(str)>> \o Utf8Encode(Tail(str))
    ELSE <<192 + (Head(str) \div 64), 128 + (Head(str) % 64)>> \o Utf8Encode(Tail(str))

\* bytes.decode("utf8"), for one- and two-byte forms.
RECURSIVE Utf8Decode(_)
Utf8Decode(raw) ==
    IF raw = <<>> THEN Ret(<<>>)
    ELSE IF Head(raw) < 128
         THEN LET r == Utf8Decode(Tail(raw))
              IN  IF r.tag = "ok" THEN Ret(<<Head(raw)>> \o r.val) ELSE r
    ELSE IF Head(raw) \in 194..223 /\ Len(raw) >= 2 /\ raw[2] \in 128..191
         THEN LET r == Utf8Decode(SubSeq(raw, 3, Len(raw)))
              IN  IF r.tag = "ok"
                  THEN Ret(<<(Head(raw) - 192) * 64 + (raw[2] - 128)>> \o r.val)
                  ELSE r
    ELSE Raise("UnicodeDecodeError")

\* tree_parse_one: [pos, leaf] or an exception.
tree_parse_one(raw, start) ==
    LET x == Find(raw, SP, start)
    IN  IF ~(5 <= x - start /\ x - start <= 6) THEN Raise("AssertionError")
        ELSE LET m == PySlice(raw, start, x)
                 mode == IF Len(m) = 5 THEN <<ZERO>> \o m ELSE m
                 y == Find(raw, NUL, x)
                 path == Utf8Decode(PySlice(raw, x + 1, y))
                 sha == RawToHex(PySlice(raw, y + 1, y + 21))
             IN  IF path.tag # "ok" THEN path
                 ELSE Ret([pos |-> y + 21,
                           leaf |-> [mode |-> mode, path |-> path.val, sha |-> sha]])

RECURSIVE TreeParseFrom(_, _, _, _)
TreeParseFrom(raw, pos, items, fuel) ==
    IF ~(pos < Len(raw)) THEN Ret(items)
    ELSE IF fuel = 0 THEN Raise("NonTermination")
    ELSE LET r == tree_parse_one(raw, pos)
         IN  IF r.tag # "ok" THEN r
             ELSE TreeParseFrom(raw, r.val.pos, Append(items, r.val.leaf), fuel - 1)

tree_parse(raw) == TreeParseFrom(raw, 0, <<>>, Len(raw) + 2)

\* A sort key that ignores the mode.
PathOnlyKey(leaf) == leaf.path

tree_leaf_sort_key(leaf) ==
    IF StartsWith(leaf.mode, <<49, 48>>) THEN leaf.path ELSE leaf.path \o <<47>>

\* a < b on str: by code point, a proper prefix first.
StrLess(a, b) ==
    \E i \in 1..(Len(b)) :
        /\ i <= Len(a) + 1
        /\ \A j \in 1..(i - 1) : a[j] = b[j]
        /\ (i = Len(a) + 1 \/ a[i] < b[i])

\* list.sort(key = ...) is stable: a leaf goes after the leaves whose key
\* is not greater.
RECURSIVE InsertLeaf(_, _)
InsertLeaf(sorted, leaf) ==
    IF sorted = <<>> THEN <<leaf>>
    ELSE IF StrLess(tree_leaf_sort_key(leaf), tree_leaf_sort_key(Head(sorted)))
         THEN <<leaf>> \o sorted
    ELSE <<Head(sorted)>> \o InsertLeaf(Tail(sorted), leaf)

RECURSIVE SortFrom(_, _)
SortFrom(sorted, items) ==
    IF items = <<>> THEN sorted
    ELSE SortFrom(InsertLeaf(sorted, Head(items)), Tail(items))

\* A serializer that leaves the leaves in the order it finds them.
KeepOrder(items) == items

\* obj.items.sort(key=tree_leaf_sort_key)
SortLeaves(items) == SortFrom(<<>>, items)

RECURSIVE EmitLeaves(_)
EmitLeaves(items) ==
    IF items = <<>> THEN Ret(<<>>)
    ELSE LET raw == HexToRaw(Head(items).sha)
             rest == EmitLeaves(Tail(items))
         IN  IF raw.tag # "ok" THEN raw
             ELSE IF rest.tag # "ok" THEN rest
             ELSE Ret(Head(items).mode \o <<SP>> \o Utf8Encode(Head(items).path)
                          \o <<NUL>> \o raw.val \o rest.val)

\* tree_serialize: the payload; obj.items is left sorted.
tree_serialize(items) == EmitLeaves(SortLeaves(items))

----------------------------------------------------------------------------
(***************************************************************************)
(* Bounds of the inputs.                                                   *)
(***************************************************************************)
MaxVals == 3      \* values of one repeated key in a document
MaxLines == 3     \* header lines of a KVLM text
MaxLeaves == 2    \* leaves of a tree

\* All sequences over S of length lo..hi.
SeqsOf(S, lo, hi) == UNION {[1..n -> S] : n \in lo..hi}

\* Keys of commit and tag headers: b"p" (parent), b"a" (author).
KvlmKeys == {<<112>>, <<97>>}

\* Values: b"1", b"2\n3" (an embedded newline), b" \n 4\n" (a leading space,
\* a newline followed by a space, a trailing newline).
KvlmValues == {<<49>>, <<50, LF, 51>>, <<SP, LF, SP, 52, LF>>}

\* Message bodies: b"" and b"m\n\n n" (with a blank line).
KvlmMessages == {<<>>, <<109, LF, LF, SP, 110>>}

\* The slot of one key: a bytes value, or a list of 1..MaxVals values.
KvlmSlots ==
    {[list |-> FALSE, vals |-> <<v>>] : v \in KvlmValues}
        \cup {[list |-> TRUE, vals |-> vs] : vs \in SeqsOf(KvlmValues, 1, MaxVals)}

\* Documents: dicts with pairwise distinct keys, in any insertion order, and
\* a message.
KvlmDocs ==
    LET one(k, s) == [key |-> k, list |-> s.list, vals |-> s.vals]
        fieldSeqs ==
            {<<>>}
            \cup {<<one(k, s)>> : k \in KvlmKeys, s \in KvlmSlots}
            \cup {<<one(k1, s1), one(k2, s2)>> :
                      k1 \in KvlmKeys, k2 \in KvlmKeys,
                      s1 \in KvlmSlots, s2 \in KvlmSlots}
    IN  {[fields |-> f, hasmsg |-> TRUE, msg |-> m] :
             f \in {g \in fieldSeqs : Len(g) < 2 \/ g[1].key # g[2].key},
             m \in KvlmMessages}

\* The KVLM grammar: header lines `key SP value LF`, every newline of a
\* value continued with a space, a blank line, the message.
RECURSIVE KvlmHeaderText(_)
KvlmHeaderText(lines) ==
    IF lines = <<>> THEN <<>>
    ELSE Head(lines)[1] \o <<SP>> \o EscapeLF(Head(lines)[2]) \o <<LF>>
             \o KvlmHeaderText(Tail(lines))

\* Well-formed KVLM byte strings: up to MaxLines header lines, keys in any
\* order and repeated at will.
KvlmTexts ==
    {KvlmHeaderText(ls) \o <<LF>> \o m :
         ls \in SeqsOf(KvlmKeys \X KvlmValues, 0, MaxLines), m \in KvlmMessages}

----------------------------------------------------------------------------
(***************************************************************************)
(* GitCommit / GitTag: deserialize parses the payload, serialize writes    *)
(* the dict back.  SpecKvlm applies them to a document or to a text.       *)
(***************************************************************************)
NoDoc == EmptyDict

InitKvlm ==
    /\ dirs = {}
    /\ files = <<>>
    /\ refs = <<>>
    /\ mem = None
    /\ arg \in {[kind |-> "doc", doc |-> d, raw |-> <<>>] : d \in KvlmDocs}
               \cup {[kind |-> "raw", doc |-> NoDoc, raw |-> b] : b \in KvlmTexts}
    /\ out = None
    /\ pc = "start"
    /\ nops = 0
    /\ fsys = <<>>

\* GitCommit.serialize on a freshly built document.
CommitSerialize ==
    /\ pc = "start" /\ arg.kind = "doc"
    /\ out' = kvlm_serialize(arg.doc)
    /\ pc' = "serialized"
    /\ UNCHANGED <<fsys, dirs, files, refs, mem, arg, nops>>

\* GitCommit.deserialize on a payload.
CommitDeserialize ==
    /\ pc = "start" /\ arg.kind = "raw"
    /\ out' = kvlm_parse(arg.raw)
    /\ pc' = "parsed"
    /\ UNCHANGED <<fsys, dirs, files, refs, mem, arg, nops>>

\* The payload just written is parsed again.
CommitReparse ==
    /\ pc = "serialized" /\ out.tag = "ok"
    /\ out' = kvlm_parse(out.val)
    /\ pc' = "done"
    /\ UNCHANGED <<fsys, dirs, files, refs, mem, arg, nops>>

\* The dict just parsed is serialized again.
CommitReserialize ==
    /\ pc = "parsed" /\ out.tag = "ok"
    /\ out' = kvlm_serialize(out.val)
    /\ pc' = "done"
    /\ UNCHANGED <<fsys, dirs, files, refs, mem, arg, nops>>

NextKvlm == CommitSerialize \/ CommitDeserialize \/ CommitReparse \/ CommitReserialize

SpecKvlm == InitKvlm /\ [][NextKvlm]_vars

----------------------------------------------------------------------------
\* A document whose lists all hold at least two values.
ListsHaveTwo(doc) ==
    \A i \in 1..Len(doc.fields) : doc.fields[i].list => Len(doc.fields[i].vals) >= 2

\* C5 (as amended): a document whose keys hold a bytes value or a list of at
\* least two values parses back, after kvlm_serialize, to the same document,
\* the order of keys and of repeated values included.
C5_KvlmRoundTrip ==
    (pc = "done" /\ arg.kind = "doc" /\ ListsHaveTwo(arg.doc)) => out = Ret(arg.doc)

\* C5 (as claimed): every document, a one-value list included, parses back
\* to itself.
C5_AsClaimed ==
    (pc = "done" /\ arg.kind = "doc") => out = Ret(arg.doc)

\* C5 witness: a document with a three-value list and a value with embedded
\* newlines has made the round trip.
C5_Witness ==
    /\ pc = "done" /\ arg.kind = "doc" /\ out = Ret(arg.doc)
    /\ \E i \in 1..Len(arg.doc.fields) :
           arg.doc.fields[i].list /\ Len(arg.doc.fields[i].vals) = 3
    /\ \E i \in 1..Len(arg.doc.fields) :
           \E j \in 1..Len(arg.doc.fields[i].vals) :
               \E k \in 1..Len(arg.doc.fields[i].vals[j]) :
                   arg.doc.fields[i].vals[j][k] = LF

\* C6: a well-formed KVLM text that is parsed and serialized again comes
\* back byte for byte.
C6_TextRoundTrip ==
    (pc = "done" /\ arg.kind = "raw") => out = Ret(arg.raw)

----------------------------------------------------------------------------
(***************************************************************************)
(* GitTree: serialize sorts and writes the leaves, deserialize parses a    *)
(* payload.  SpecTree applies them to a freshly built tree.                *)
(***************************************************************************)
ModeFile == <<49, 48, 48, 54, 52, 52>>      \* b"100644"
ModeDir5 == <<52, 48, 48, 48, 48>>          \* b"40000"
ModeDir6 == <<48, 52, 48, 48, 48, 48>>      \* b"040000"
ModeLink == <<49, 50, 48, 48, 48, 48>>      \* b"120000"

PathFoo == <<102, 111, 111>>                \* "foo"
PathFooC == <<102, 111, 111, 46, 99>>       \* "foo.c"

\* Paths: "foo", "foo.c", "foo0", "é" (no "/" and no NUL in a path).
TreePaths == {PathFoo, PathFooC, <<102, 111, 111, 48>>, <<233>>}

TreeModes == {ModeFile, ModeDir5, ModeDir6, ModeLink}

\* Identifiers of the entries: 40 lowercase hex digits.
TreeShas == {Zeros(38) \o <<97, 49>>, <<55, 102>> \o Zeros(38)}

TreeLeaves == [mode : TreeModes, path : TreePaths, sha : TreeShas]

\* Leaf lists of up to MaxLeaves leaves with pairwise distinct paths, in
\* every order.
TreeInputs ==
    {t \in SeqsOf(TreeLeaves, 0, MaxLeaves) :
         \A i, j \in 1..Len(t) : i # j => t[i].path # t[j].path}

InitTree ==
    /\ dirs = {}
    /\ files = <<>>
    /\ refs = <<>>
    /\ mem = None
    /\ arg \in TreeInputs
    /\ out = None
    /\ pc = "start"
    /\ nops = 0
    /\ fsys = <<>>

\* GitTree.serialize on the tree as built; the items stay sorted in memory.
TreeSerialize ==
    /\ pc = "start"
    /\ out' = tree_serialize(arg)
    /\ mem' = Ret(SortLeaves(arg))
    /\ pc' = "serialized"
    /\ UNCHANGED <<fsys, dirs, files, refs, arg, nops>>

\* GitTree.deserialize on the payload just written.
TreeDeserialize ==
    /\ pc = "serialized" /\ out.tag = "ok"
    /\ mem' = tree_parse(out.val)
    /\ pc' = "parsed"
    /\ UNCHANGED <<fsys, dirs, files, refs, arg, out, nops>>

\* GitTree.serialize on the tree just read.
TreeReserialize ==
    /\ pc = "parsed" /\ mem.tag = "ok"
    /\ out' = tree_serialize(mem.val)
    /\ mem' = Ret(SortLeaves(mem.val))
    /\ pc' = "done"
    /\ UNCHANGED <<fsys, dirs, files, refs, arg, nops>>

NextTree == TreeSerialize \/ TreeDeserialize \/ TreeReserialize

SpecTree == InitTree /\ [][NextTree]_vars

----------------------------------------------------------------------------
\* The sort key as the specification states it.
StatedKey(leaf) ==
    IF Len(leaf.mode) >= 2 /\ leaf.mode[1] = 49 /\ leaf.mode[2] = 48
    THEN leaf.path ELSE leaf.path \o <<47>>

\* The paths of a payload's entries, in the order written.
EmittedPaths(payload) ==
    LET p == tree_parse(payload)
    IN  IF p.tag = "ok" THEN [i \in 1..Len(p.val) |-> p.val[i].path] ELSE <<>>

\* The leaf of the input tree with a path.
LeafAt(items, path) == CHOOSE l \in {items[i] : i \in 1..Len(items)} : l.path = path

Orders(n) == {q \in [1..n -> 1..n] : \A i, j \in 1..n : i # j => q[i] # q[j]}

IndexOf(seq, x) == CHOOSE i \in 1..Len(seq) : seq[i] = x

\* C7: tree_serialize writes the same payload for every order of the same
\* leaves (pairwise distinct paths), and the leaves written are in ascending
\* order of the stated sort key.
C7_TreeDeterministic ==
    pc = "serialized" =>
        /\ out.tag = "ok"
        /\ \A q \in Orders(Len(arg)) :
               tree_serialize([i \in 1..Len(arg) |-> arg[q[i]]]) = out
        /\ LET ps == EmittedPaths(out.val)
           IN  /\ Len(ps) = Len(arg)
               /\ \A i \in 1..Len(ps) : \E k \in 1..Len(arg) : arg[k].path = ps[i]
               /\ \A i \in 1..(Len(ps) - 1) :
                      StrLess(StatedKey(LeafAt(arg, ps[i])),
                              StatedKey(LeafAt(arg, ps[i + 1])))

\* C7 witness: a tree of a file and a directory, built in the other order
\* than the one written, has been serialized.
C7_Witness ==
    /\ pc = "serialized" /\ out.tag = "ok" /\ Len(arg) = 2
    /\ arg[1].mode = ModeDir5 /\ arg[2].mode = ModeFile
    /\ EmittedPaths(out.val) = <<arg[2].path, arg[1].path>>

\* The tree holds a regular file foo.c and a subtree foo.
HasFooAndFooC(items) ==
    /\ \E i \in 1..Len(items) :
           items[i].path = PathFooC /\ items[i].mode = ModeFile
    /\ \E i \in 1..Len(items) :
           items[i].path = PathFoo /\ items[i].mode \in {ModeDir5, ModeDir6}

\* C8 (as amended): for a regular file foo.c and a subtree foo,
\* tree_serialize writes the entry foo.c before the entry foo.
C8_FooCBeforeFoo ==
    (pc = "serialized" /\ HasFooAndFooC(arg)) =>
        /\ out.tag = "ok"
        /\ PathFoo \in {EmittedPaths(out.val)[i] : i \in 1..Len(EmittedPaths(out.val))}
        /\ PathFooC \in {EmittedPaths(out.val)[i] : i \in 1..Len(EmittedPaths(out.val))}
        /\ IndexOf(EmittedPaths(out.val), PathFooC) < IndexOf(EmittedPaths(out.val), PathFoo)

\* C8 (as claimed): the entry foo is written before the entry foo.c.
C8_AsClaimed ==
    (pc = "serialized" /\ HasFooAndFooC(arg) /\ out.tag = "ok") =>
        IndexOf(EmittedPaths(out.val), PathFoo) < IndexOf(EmittedPaths(out.val), PathFooC)

\* C8 witness: a tree built as <<foo, foo.c>> has been serialized.
C8_Witness ==
    /\ pc = "serialized" /\ HasFooAndFooC(arg) /\ out.tag = "ok"
    /\ arg[1].path = PathFoo

----------------------------------------------------------------------------
(***************************************************************************)
(* Object codec and store (io.py).  An object in memory is                 *)
(*   [fmt |-> bytes, blobdata |-> bytes, kvlm |-> dict, items |-> leaves]  *)
(* of which a blob uses blobdata, a commit or tag kvlm, a tree items.      *)
(***************************************************************************)
FmtBlob == <<98, 108, 111, 98>>                 \* b"blob"
FmtCommit == <<99, 111, 109, 109, 105, 116>>    \* b"commit"
FmtTree == <<116, 114, 101, 101>>               \* b"tree"
FmtTag == <<116, 97, 103>>                      \* b"tag"

GitBlob(data) == [fmt |-> FmtBlob, blobdata |-> data, kvlm |-> EmptyDict, items |-> <<>>]
GitCommit(kvlm) == [fmt |-> FmtCommit, blobdata |-> <<>>, kvlm |-> kvlm, items |-> <<>>]
GitTag(kvlm) == [fmt |-> FmtTag, blobdata |-> <<>>, kvlm |-> kvlm, items |-> <<>>]
GitTree(items) == [fmt |-> FmtTree, blobdata |-> <<>>, kvlm |-> EmptyDict, items |-> items]

\* obj.serialize()
Serialize(obj) ==
    IF obj.fmt = FmtBlob THEN Ret(obj.blobdata)
    ELSE IF obj.fmt = FmtTree THEN tree_serialize(obj.items)
    ELSE kvlm_serialize(obj.kvlm)

\* c(raw[y + 1:]): the constructor picked by object_read, on the payload.
Deserialize(fmt, data) ==
    IF fmt = FmtBlob THEN Ret(GitBlob(data))
    ELSE IF fmt = FmtTree
         THEN LET r == tree_parse(data)
              IN  IF r.tag = "ok" THEN Ret(GitTree(r.val)) ELSE r
    ELSE LET r == kvlm_parse(data)
         IN  IF r.tag # "ok" THEN r
             ELSE IF fmt = FmtCommit THEN Ret(GitCommit(r.val)) ELSE Ret(GitTag(r.val))

\* str(n).encode()
RECURSIVE Decimal(_)
Decimal(n) == IF n < 10 THEN <<ZERO + n>> ELSE Decimal(n \div 10) \o <<ZERO + (n % 10)>>

IsSpace(c) == c \in (9..13) \cup {SP}

RECURSIVE LStrip(_)
LStrip(s) == IF s # <<>> /\ IsSpace(Head(s)) THEN LStrip(Tail(s)) ELSE s

RECURSIVE RStrip(_)
RStrip(s) ==
    IF s # <<>> /\ IsSpace(s[Len(s)]) THEN RStrip(SubSeq(s, 1, Len(s) - 1)) ELSE s

RECURSIVE DigitsValue(_)
DigitsValue(s) ==
    IF s = <<>> THEN 0 ELSE 10 * DigitsValue(SubSeq(s, 1, Len(s) - 1)) + (s[Len(s)] - ZERO)

\* int(raw[x:y].decode("ascii")): blanks around the number and a sign are
\* accepted, anything else than digits is a ValueError.
ParseInt(s) ==
    IF \E i \in 1..Len(s) : s[i] >= 128 THEN Raise("UnicodeDecodeError")
    ELSE LET t == RStrip(LStrip(s))
             signed == t # <<>> /\ Head(t) \in {43, 45}
             d == IF signed THEN Tail(t) ELSE t
         IN  IF d = <<>> \/ \E i \in 1..Len(d) : d[i] \notin 48..57
             THEN Raise("ValueError")
             ELSE Ret(IF signed /\ Head(t) = 45 THEN 0 - DigitsValue(d) ELSE DigitsValue(d))

\* zlib: a stream is the two-byte header (0x78, then the level byte) and the
\* data; the data are kept as stored blocks.  zlib.compress writes at the
\* default level (0x78 0x9c); decompress accepts every level.
ZlibLevels == {1, 94, 156, 218}

ZlibCompress(raw) == <<120, 156>> \o raw

ZlibCompressAt(level, raw) == <<120, level>> \o raw

ZlibDecompress(z) ==
    IF Len(z) >= 2 /\ z[1] = 120 /\ z[2] \in ZlibLevels
    THEN Ret(SubSeq(z, 3, Len(z)))
    ELSE Raise("zlib.error")

\* hashlib.sha1(result).hexdigest(): 40 lowercase hexadecimal digits fixed by
\* the content.  The digest is a 15-bit polynomial of the bytes (base 257,
\* modulo 32749), written in the four leading digits; it is one-to-one on
\* the contents of this model.  The sum is split in halves to keep the
\* evaluation shallow.
RECURSIVE PowMod(_, _)
PowMod(b, e) ==
    IF e = 0 THEN 1
    ELSE LET half == PowMod(b, e \div 2)
         IN  IF e % 2 = 0 THEN (half * half) % 32749
             ELSE (((half * half) % 32749) * b) % 32749

RECURSIVE DigestRange(_, _, _)
DigestRange(bytes, lo, hi) ==
    IF lo > hi THEN 0
    ELSE IF lo = hi THEN ((bytes[lo] + 1) * PowMod(257, Len(bytes) - lo)) % 32749
    ELSE LET mid == (lo + hi) \div 2
         IN  (DigestRange(bytes, lo, mid) + DigestRange(bytes, mid + 1, hi)) % 32749

Digest(bytes) == (7 * PowMod(257, Len(bytes)) + DigestRange(bytes, 1, Len(bytes))) % 32749

Sha1Hex(result) ==
    LET h == CHOOSE d \in {Digest(b) : b \in {result}} : TRUE
    IN  <<HexChar(h \div 4096), HexChar((h \div 256) % 16),
          HexChar((h \div 16) % 16), HexChar(h % 16)>> \o Zeros(36)

\* obj.fmt + b" " + str(len(data)).encode() + b"\x00" + data
Frame(fmt, data) == fmt \o <<SP>> \o Decimal(Len(data)) \o <<NUL>> \o data

\* repo_dir(repo, "objects", fan, mkdir): whether a path comes back, and the
\* directories afterwards.
repo_dir(ds, fan, mkdir) ==
    IF fan \in ds THEN [path |-> TRUE, dirs |-> ds]
    ELSE IF mkdir THEN [path |-> TRUE, dirs |-> ds \cup {fan}]
    ELSE [path |-> FALSE, dirs |-> ds]

\* repo_file(repo, "objects", sha[0:2], sha[2:], mkdir): None when repo_dir
\* gives no directory.
repo_file(ds, sha, mkdir) == repo_dir(ds, PySlice(sha, 0, 2), mkdir)

\* An object_write that opens the file for writing whether or not it exists.
StoreFileAlways(fs, sha, content) ==
    [x \in (DOMAIN fs) \cup {sha} |-> IF x = sha THEN content ELSE fs[x]]

\* if not os.path.exists(path): write the compressed form
StoreFile(fs, sha, content) ==
    IF sha \in DOMAIN fs THEN fs
    ELSE [x \in (DOMAIN fs) \cup {sha} |-> IF x = sha THEN content ELSE fs[x]]

\* object_write(obj, repo): the result and the store afterwards.
object_write(ds, fs, obj) ==
    LET data == Serialize(obj)
    IN  IF data.tag # "ok" THEN [res |-> data, dirs |-> ds, files |-> fs]
        ELSE LET result == Frame(obj.fmt, data.val)
                 sha == Sha1Hex(result)
                 d == repo_file(ds, sha, TRUE)
             IN  [res |-> Ret(sha), dirs |-> d.dirs,
                  files |-> StoreFile(fs, sha, ZlibCompress(result))]

\* A length check that counts the NUL with the payload.
LengthOffByOne(size, raw, y) == size = Len(raw) - y

\* size != len(raw) - y - 1 is the Malformed case
LengthMatches(size, raw, y) == size = Len(raw) - y - 1

KnownFmts == {FmtCommit, FmtTree, FmtTag, FmtBlob}

\* object_read(repo, sha)
object_read(ds, fs, sha) ==
    IF ~repo_file(ds, sha, FALSE).path THEN Raise("TypeError")  \* os.path.isfile(None)
    ELSE IF sha \notin DOMAIN fs THEN None
    ELSE LET z == ZlibDecompress(fs[sha])
         IN  IF z.tag # "ok" THEN z
             ELSE LET raw == z.val
                      x == Find(raw, SP, 0)
                      fmt == PySlice(raw, 0, x)
                      y == Find(raw, NUL, x)
                      size == ParseInt(PySlice(raw, x, y))
                  IN  IF size.tag # "ok" THEN size
                      ELSE IF ~LengthMatches(size.val, raw, y)
                           THEN Raise("Malformed object: bad length")
                      ELSE IF fmt \notin KnownFmts THEN Raise("Unknown type")
                      ELSE Deserialize(fmt, PyFrom(raw, y + 1))

----------------------------------------------------------------------------
(***************************************************************************)
(* Spec: a repository's object store under object_write and object_read.   *)
(***************************************************************************)
MaxOps == 3       \* calls made on the store in one run

NoObj == [fmt |-> <<>>, blobdata |-> <<>>, kvlm |-> EmptyDict, items |-> <<>>]

ShaA == Zeros(38) \o <<97, 49>>

\* The well-formed objects a caller writes: a blob b"hi", a commit with one
\* tree and two parents, a tag, a tree with a 5-digit mode.
Objs ==
    { GitBlob(<<104, 105>>),
      GitCommit([fields |-> << [key |-> <<116>>, list |-> FALSE, vals |-> << <<49>> >>],
                               [key |-> <<112>>, list |-> TRUE,
                                vals |-> << <<49>>, <<50, LF, 51>> >>] >>,
                 hasmsg |-> TRUE, msg |-> <<109, LF>>]),
      GitTag([fields |-> << [key |-> <<111>>, list |-> FALSE, vals |-> << <<49>> >>] >>,
              hasmsg |-> TRUE, msg |-> <<>>]),
      GitTree(<< [mode |-> ModeDir5, path |-> PathFoo, sha |-> ShaA],
                 [mode |-> ModeFile, path |-> PathFooC, sha |-> ShaA] >>) }

\* The framed form of an object file, header pieces as given.
Framed(fmt, digits, payload) == fmt \o <<SP>> \o digits \o <<NUL>> \o payload

FmtBlub == <<98, 108, 117, 98>>     \* b"blub", no kind of object

\* Object files found in a repository that this program did not write:
\* written by git at another compression level, or damaged.
Preexisting ==
    LET hi == <<104, 105>>
        file(level, raw) == [sha |-> Sha1Hex(raw), content |-> ZlibCompressAt(level, raw)]
    IN  { \* blob b"hi" as git writes it at level 9, under its identifier
          file(218, Frame(FmtBlob, hi)),
          \* declared length 5, payload of 2 bytes (a truncated file)
          file(156, Framed(FmtBlob, <<53>>, hi)),
          \* declared length 1, payload of 2 bytes
          file(156, Framed(FmtTag, <<49>>, hi)),
          \* no known kind, the right length
          file(156, Framed(FmtBlub, <<50>>, hi)),
          \* no known kind, the wrong length
          file(156, Framed(FmtBlub, <<51>>, hi)),
          \* a commit with an empty payload
          file(156, Framed(FmtCommit, <<48>>, <<>>)),
          \* the length written "02"
          file(156, Framed(FmtBlob, <<48, 50>>, hi)) }

\* The stores a run starts from: a fresh repository, or one holding one of
\* the files above (its fan-out directory exists with it).
InitStores == {{}} \cup {{f} : f \in Preexisting}

ObjIds == {object_write({}, <<>>, o).res.val : o \in Objs}

\* Identifiers of no object file: one in the fan-out directory of the blob
\* b"hi", one in a fan-out directory that is never made.
AbsentIds ==
    {PySlice(s, 0, 2) \o <<102, 102>> \o Zeros(36) :
         s \in {object_write({}, <<>>, GitBlob(<<104, 105>>)).res.val}}
        \cup {<<102, 102, 102, 102>> \o Zeros(36)}

NoCall == [op |-> "none", obj |-> NoObj, sha |-> <<>>]

Init ==
    /\ \E st \in InitStores :
           /\ dirs = {PySlice(f.sha, 0, 2) : f \in st}
           /\ files = [s \in {f.sha : f \in st} |->
                          (CHOOSE f \in st : f.sha = s).content]
    /\ refs = <<>>
    /\ mem = None
    /\ arg = NoCall
    /\ out = None
    /\ pc = "start"
    /\ nops = 0
    /\ fsys = <<>>

\* tree_serialize sorts obj.items in place: the object after serialize().
AfterSerialize(obj) == [obj EXCEPT !.items = SortLeaves(@)]

\* object_write(o, repo) for an object the caller built.
ObjectWrite(o) ==
    /\ nops < MaxOps
    /\ LET w == object_write(dirs, files, o)
       IN  /\ dirs' = w.dirs
           /\ files' = w.files
           /\ out' = w.res
           /\ arg' = [op |-> "write", obj |-> o,
                      sha |-> IF w.res.tag = "ok" THEN w.res.val ELSE <<>>]
    /\ pc' = "written"
    /\ nops' = nops + 1
    /\ UNCHANGED <<fsys, refs, mem>>

\* object_read(repo, sha); the object returned is kept by the caller.
ObjectRead(sha) ==
    /\ nops < MaxOps
    /\ LET r == object_read(dirs, files, sha)
       IN  /\ out' = r
           /\ mem' = r
    /\ arg' = [op |-> "read", obj |-> NoObj, sha |-> sha]
    /\ pc' = IF pc = "written" /\ out = Ret(sha) THEN "readback" ELSE "read"
    /\ nops' = nops + 1
    /\ UNCHANGED <<fsys, dirs, files, refs>>

\* object_write(obj, repo) for the object object_read has just returned.
ObjectWriteBack ==
    /\ nops < MaxOps
    /\ pc \in {"readback", "read"} /\ mem.tag = "ok"
    /\ LET w == object_write(dirs, files, mem.val)
       IN  /\ dirs' = w.dirs
           /\ files' = w.files
           /\ out' = w.res
    /\ arg' = [op |-> "rewrite", obj |-> mem.val, sha |-> arg.sha]
    /\ mem' = Ret(AfterSerialize(mem.val))
    /\ pc' = IF pc = "readback" THEN "cycled" ELSE "rewritten"
    /\ nops' = nops + 1
    /\ UNCHANGED <<fsys, refs>>

Next ==
    \/ \E o \in Objs : ObjectWrite(o)
    \/ \E sha \in (DOMAIN files) \cup AbsentIds : ObjectRead(sha)
    \/ ObjectWriteBack

Spec == Init /\ [][Next]_vars

----------------------------------------------------------------------------
\* The digest is one-to-one on the framed forms the model writes or holds.
DigestOneToOne ==
    LET framed == {Frame(o.fmt, Serialize(o).val) : o \in Objs}
                      \cup {ZlibDecompress(f.content).val : f \in Preexisting}
    IN  \A a, b \in framed : Sha1Hex(a) = Sha1Hex(b) => a = b

\* C1: no call changes or removes an object file that exists, nor a fan-out
\* directory; an object written twice in a row gives the same identifier
\* and leaves the files as the first write left them.
C1_ObjectsImmutable ==
    [][ /\ \A s \in DOMAIN files : s \in DOMAIN files' /\ files'[s] = files[s]
        /\ dirs \subseteq dirs'
        /\ (arg.op = "write" /\ arg'.op = "write" /\ arg'.obj = arg.obj /\ out.tag = "ok")
               => (out' = out /\ files' = files) ]_vars

\* C1 witness: object_write has returned the identifier of a file that was
\* there before it, with other bytes than it would write, and the file is
\* as it was.
C1_Witness ==
    /\ arg.op = "write" /\ out.tag = "ok"
    /\ out.val \in DOMAIN files
    /\ files[out.val] # ZlibCompress(Frame(arg.obj.fmt, Serialize(arg.obj).val))

\* C2: the object read back from the identifier object_write returned is
\* written again under the same identifier.
C2_IdStable ==
    pc = "cycled" => out = Ret(arg.sha)

\* C3: object_read of an identifier with no object file returns None and
\* raises nothing.
C3_AbsentIsNone ==
    (arg.op = "read" /\ arg.sha \notin DOMAIN files) => out = None

\* The kinds and the decimal lengths a framed header is looked up with.
HeaderFmts == KnownFmts \cup {FmtBlub}

HeaderDigits == SeqsOf(48..57, 1, 2)

\* C4 (as amended): object_read of a file framed `kind SP digits NUL
\* payload` raises Malformed when the digits do not give the length of the
\* payload; when they do and the kind is blob, commit, tree or tag, it
\* gives what that kind's deserializer gives on exactly the payload: the
\* object, or the deserializer's error for a payload it cannot parse.
C4_LengthChecked ==
    (arg.op = "read" /\ arg.sha \in DOMAIN files) =>
        \A fmt \in HeaderFmts, d \in HeaderDigits :
            LET raw == ZlibDecompress(files[arg.sha]).val
                hdr == fmt \o <<SP>> \o d \o <<NUL>>
                payload == PyFrom(raw, Len(hdr))
            IN  StartsWith(raw, hdr) =>
                    /\ DigitsValue(d) # Len(payload)
                           => out = Raise("Malformed object: bad length")
                    /\ (DigitsValue(d) = Len(payload) /\ fmt \in KnownFmts)
                           => /\ out = Deserialize(fmt, payload)
                              /\ out.tag = "ok" => out.val.fmt = fmt
                              /\ (out.tag = "ok" /\ fmt = FmtBlob)
                                     => out.val.blobdata = payload

\* C4 (as claimed): with the right length and a known kind, an object of
\* that kind always comes back.
C4_AsClaimed ==
    (arg.op = "read" /\ arg.sha \in DOMAIN files) =>
        \A fmt \in HeaderFmts, d \in HeaderDigits :
            LET raw == ZlibDecompress(files[arg.sha]).val
                hdr == fmt \o <<SP>> \o d \o <<NUL>>
                payload == PyFrom(raw, Len(hdr))
            IN  StartsWith(raw, hdr) =>
                    /\ DigitsValue(d) # Len(payload)
                           => out = Raise("Malformed object: bad length")
                    /\ (DigitsValue(d) = Len(payload) /\ fmt \in KnownFmts)
                           => (out.tag = "ok" /\ out.val.fmt = fmt)

\* C4 witness: a file whose header declares 5 bytes before a payload of 2
\* has been read, and Malformed raised.
C4_Witness ==
    /\ arg.op = "read" /\ arg.sha \in DOMAIN files
    /\ StartsWith(ZlibDecompress(files[arg.sha]).val, FmtBlob \o <<SP, 53, NUL>>)
    /\ out = Raise("Malformed object: bad length")

----------------------------------------------------------------------------
(***************************************************************************)
(* References (ref.py) and name resolution (io.py).  Text is a sequence of *)
(* character codes; a reference file is kept under its path relative to    *)
(* the git directory.                                                      *)
(***************************************************************************)
HEAD == <<72, 69, 65, 68>>                          \* "HEAD"
RefPrefix == <<114, 101, 102, 58, 32>>              \* "ref: "
RefsDir == <<114, 101, 102, 115, 47>>               \* "refs/"
TagsDir == <<116, 97, 103, 115, 47>>                \* "tags/"
HeadsDir == <<104, 101, 97, 100, 115, 47>>          \* "heads/"
KeyObject == <<111, 98, 106, 101, 99, 116>>         \* b"object"
KeyTree == <<116, 114, 101, 101>>                   \* b"tree"

\* A read that keeps the final character of the file.
KeepLast(text) == text

\* fp.read()[:-1]
DropLast(text) == PySlice(text, 0, -1)

\* ref_resolve(repo, ref).  repo_file(repo, ref) has one path component, so
\* it is always a path in the git directory; a missing file gives None.
\* The recursion has no stop of its own: a chain that visits more files than
\* the store holds visits one twice and recurses until Python's recursion
\* limit, a RecursionError.  fuel counts the files left to visit.
RECURSIVE RefResolveFrom(_, _, _)
RefResolveFrom(rs, ref, fuel) ==
    IF ref \notin DOMAIN rs THEN None
    ELSE LET data == DropLast(rs[ref])
         IN  IF StartsWith(data, RefPrefix)
             THEN IF fuel = 0 THEN Raise("RecursionError")
                  ELSE RefResolveFrom(rs, PyFrom(data, 5), fuel - 1)
             ELSE Ret(data)

ref_resolve(rs, ref) == RefResolveFrom(rs, ref, Cardinality(DOMAIN rs))

\* ref_create(repo, ref_name, sha): the reference files afterwards.
ref_create(rs, ref_name, sha) ==
    LET path == RefsDir \o ref_name
    IN  [x \in (DOMAIN rs) \cup {path} |-> IF x = path THEN sha \o <<LF>> ELSE rs[x]]

\* name.lower()
Lower(name) == [i \in 1..Len(name) |-> IF name[i] \in 65..90 THEN name[i] + 32 ELSE name[i]]

\* hashRE.match(name) for ^[0-9A-Fa-f]{4,40}$ ($ also matches before a
\* final newline)
HashRE(name) ==
    LET body == IF name # <<>> /\ name[Len(name)] = LF THEN DropLast(name) ELSE name
    IN  /\ Len(body) \in 4..40
        /\ \A i \in 1..Len(body) : body[i] \in (48..57) \cup (65..70) \cup (97..102)

\* if tag_sha: a value other than None and the empty string
Truthy(r) == r.tag = "ok" /\ r.val # <<>>

\* os.listdir(objects/<prefix>): the file names, in an order of the
\* system's choosing.
ListDir(fs, prefix) == {PyFrom(x, 2) : x \in {y \in DOMAIN fs : PySlice(y, 0, 2) = prefix}}

Listings(S) ==
    {q \in [1..Cardinality(S) -> S] : \A i, j \in 1..Cardinality(S) : i # j => q[i] # q[j]}

\* object_resolve(repo, name): None, or the list of candidates, each a text
\* or None.  listing is what os.listdir gives for the fan-out directory of
\* the name.
object_resolve(rs, ds, fs, name, listing) ==
    IF name = <<>> THEN None
    ELSE IF name = HEAD
         THEN LET r == ref_resolve(rs, HEAD)
              IN  IF r.tag = "raise" THEN r ELSE Ret(<<r>>)
    ELSE LET hash == HashRE(name)
             nm == IF hash THEN Lower(name) ELSE name
             prefix == PySlice(nm, 0, 2)
             rem == PyFrom(nm, 2)
             Matches(f) == StartsWith(f, rem)
             hits == IF hash /\ repo_dir(ds, prefix, FALSE).path
                     THEN SelectSeq(listing, Matches) ELSE <<>>
             objs == [i \in 1..Len(hits) |-> Ret(prefix \o hits[i])]
             tag_sha == ref_resolve(rs, RefsDir \o TagsDir \o nm)
             branch_sha == ref_resolve(rs, RefsDir \o HeadsDir \o nm)
         IN  IF tag_sha.tag = "raise" THEN tag_sha
             ELSE IF branch_sha.tag = "raise" THEN branch_sha
             ELSE Ret(objs \o (IF Truthy(tag_sha) THEN <<tag_sha>> ELSE <<>>)
                           \o (IF Truthy(branch_sha) THEN <<branch_sha>> ELSE <<>>))

\* A local variable before its first assignment.
Unbound == [tag |-> "unbound", val |-> <<>>, err |-> ""]

NoFmt == <<>>       \* fmt=None

\* obj.kvlm[key].decode("ascii")
KvlmText(kvlm, key) ==
    IF ~HasKey(kvlm, key) THEN Raise("KeyError")
    ELSE LET f == kvlm.fields[KeyIndex(kvlm, key)]
         IN  IF f.list THEN Raise("AttributeError")
             ELSE IF \E i \in 1..Len(f.vals[1]) : f.vals[1][i] >= 128
                  THEN Raise("UnicodeDecodeError")
             ELSE Ret(f.vals[1])

\* The while True loop of object_find from the identifier sha; a loop that
\* reads more objects than the store holds never ends.  FindStep is one
\* turn of the loop on the object read.
RECURSIVE FindFollow(_, _, _, _, _, _)
RECURSIVE FindStep(_, _, _, _, _, _, _)
FindStep(ds, fs, sha, obj, fmt, follow, fuel) ==
    IF obj.tag = "raise" THEN obj
    ELSE IF obj.tag = "none" THEN Raise("AttributeError")       \* None.fmt
    ELSE IF obj.val.fmt = fmt THEN sha
    ELSE IF ~follow THEN None
    ELSE IF obj.val.fmt # FmtTag /\ ~(obj.val.fmt = FmtCommit /\ fmt = FmtTree) THEN None
    ELSE IF fuel = 0 THEN [tag |-> "diverges", val |-> <<>>, err |-> ""]
    ELSE FindFollow(ds, fs,
                    KvlmText(obj.val.kvlm, IF obj.val.fmt = FmtTag THEN KeyObject ELSE KeyTree),
                    fmt, follow, fuel - 1)

FindFollow(ds, fs, sha, fmt, follow, fuel) ==
    IF sha.tag = "raise" THEN sha                   \* from the header lookup
    ELSE IF sha.tag # "ok" THEN Raise("TypeError")  \* None[0:2]
    ELSE FindStep(ds, fs, sha, object_read(ds, fs, sha.val), fmt, follow, fuel)

\* object_find(repo, name, fmt, follow).  sha is a local of the function
\* (assigned at `sha = sha_list[0]`), so it is unbound where `if not sha`
\* reads it.
object_find(rs, ds, fs, name, fmt, follow, listing) ==
    LET sha_list == object_resolve(rs, ds, fs, name, listing)
        sha == Unbound
    IN  IF sha_list.tag = "raise" THEN sha_list
        ELSE IF sha = Unbound THEN Raise("UnboundLocalError")
        ELSE IF sha.val = <<>> THEN Raise("No such reference")
        ELSE IF Len(sha.val) > 1 THEN Raise("Ambiguous reference")
        ELSE IF sha_list.tag = "none" THEN Raise("TypeError")   \* None[0]
        ELSE IF fmt = NoFmt THEN sha_list.val[1]
        ELSE FindFollow(ds, fs, sha_list.val[1], fmt, follow, Cardinality(DOMAIN fs))

----------------------------------------------------------------------------
(***************************************************************************)
(* SpecRef: the reference files of a repository under ref_create,          *)
(* ref_resolve, object_resolve and object_find.                            *)
(***************************************************************************)
MaxRefOps == 2    \* calls made on the references in one run

NameMain == <<109, 97, 105, 110>>       \* "main"
NameV1 == <<118, 49>>                   \* "v1"

RefHeadsMain == RefsDir \o HeadsDir \o NameMain     \* "refs/heads/main"
RefTagsMain == RefsDir \o TagsDir \o NameMain       \* "refs/tags/main"

\* The reference files of the model.
RefPaths == {HEAD, RefHeadsMain, RefTagsMain}

NameCafe == <<67, 65, 70, 69>>          \* "CAFE", a name of hexadecimal digits

\* The objects in the store of the repository: the blob b"hi", the tree, and
\* a commit whose tree header names the tree.
RefBlob == GitBlob(<<104, 105>>)

RefTree == CHOOSE o \in Objs : o.fmt = FmtTree

RefCommit ==
    GitCommit([fields |-> << [key |-> KeyTree, list |-> FALSE,
                              vals |-> << object_write({}, <<>>, RefTree).res.val >>] >>,
               hasmsg |-> TRUE, msg |-> <<109, LF>>])

RefObjs == {RefBlob, RefTree, RefCommit}

RECURSIVE WriteAll(_, _, _)
WriteAll(ds, fs, objs) ==
    IF objs = {} THEN [dirs |-> ds, files |-> fs]
    ELSE LET o == CHOOSE x \in objs : TRUE
             w == object_write(ds, fs, o)
         IN  WriteAll(w.dirs, w.files, objs \ {o})

RefStore == WriteAll({}, <<>>, RefObjs)

\* The identifiers references hold: the blob's and the commit's.
RefIds == {object_write({}, <<>>, o).res.val : o \in {RefBlob, RefCommit}}

\* What a reference file holds: an identifier or `ref: <path>`, and the
\* final newline.
RefContents ==
    {id \o <<LF>> : id \in RefIds} \cup {RefPrefix \o p \o <<LF>> : p \in RefPaths}

\* The reference files a run starts from: any of the three files, with an
\* identifier or pointing to any of the three.
InitRefs ==
    UNION {[P -> RefContents] : P \in SUBSET RefPaths}

\* Names looked up: none, HEAD, a branch or tag name, a name of no
\* reference, the first four digits of an identifier, a full identifier,
\* four hexadecimal digits of no object, a tag name of hexadecimal digits.
FindNames ==
    {<<>>, HEAD, NameMain, NameV1, <<102, 102, 102, 102>>, NameCafe}
        \cup {PySlice(id, 0, 4) : id \in {object_write({}, <<>>, GitBlob(<<104, 105>>)).res.val}}
        \cup {id \in RefIds : id # object_write({}, <<>>, GitBlob(<<104, 105>>)).res.val}

NoQuery == [op |-> "none", name |-> <<>>, fmt |-> NoFmt, listing |-> <<>>]

InitRef ==
    /\ dirs = RefStore.dirs
    /\ files = RefStore.files
    /\ refs \in InitRefs
    /\ mem = None
    /\ arg = NoQuery
    /\ out = None
    /\ pc = "start"
    /\ nops = 0
    /\ fsys = <<>>

\* ref_resolve(repo, ref)
RefResolve(ref) ==
    /\ nops < MaxRefOps
    /\ out' = ref_resolve(refs, ref)
    /\ arg' = [op |-> "resolve", name |-> ref, fmt |-> NoFmt, listing |-> <<>>]
    /\ pc' = "resolved"
    /\ nops' = nops + 1
    /\ UNCHANGED <<fsys, dirs, files, refs, mem>>

\* ref_create(repo, ref_name, sha) for a tag or a branch
RefCreate(ref_name, sha) ==
    /\ nops < MaxRefOps
    /\ refs' = ref_create(refs, ref_name, sha)
    /\ out' = None
    /\ arg' = [op |-> "create", name |-> ref_name, fmt |-> NoFmt, listing |-> <<>>]
    /\ pc' = "created"
    /\ nops' = nops + 1
    /\ UNCHANGED <<fsys, dirs, files, mem>>

\* object_resolve(repo, name)
ObjectResolve(name) ==
    /\ nops < MaxRefOps
    /\ \E listing \in Listings(ListDir(files, PySlice(Lower(name), 0, 2))) :
           /\ out' = object_resolve(refs, dirs, files, name, listing)
           /\ arg' = [op |-> "candidates", name |-> name, fmt |-> NoFmt, listing |-> listing]
    /\ pc' = "candidates"
    /\ nops' = nops + 1
    /\ UNCHANGED <<fsys, dirs, files, refs, mem>>

\* object_find(repo, name, fmt)
ObjectFind(name, fmt) ==
    /\ nops < MaxRefOps
    /\ \E listing \in Listings(ListDir(files, PySlice(Lower(name), 0, 2))) :
           /\ out' = object_find(refs, dirs, files, name, fmt, TRUE, listing)
           /\ arg' = [op |-> "find", name |-> name, fmt |-> fmt, listing |-> listing]
    /\ pc' = "found"
    /\ nops' = nops + 1
    /\ UNCHANGED <<fsys, dirs, files, refs, mem>>

NextRef ==
    \/ \E ref \in RefPaths \cup {RefsDir \o HeadsDir \o NameV1} : RefResolve(ref)
    \/ \E n \in {TagsDir \o NameMain, HeadsDir \o NameMain, TagsDir \o NameCafe}, id \in RefIds :
           RefCreate(n, id)
    \/ \E name \in FindNames : ObjectResolve(name)
    \/ \E name \in FindNames, fmt \in {NoFmt, FmtTree, FmtCommit} : ObjectFind(name, fmt)

SpecRef == InitRef /\ [][NextRef]_vars

----------------------------------------------------------------------------
\* chain is a chain of references of the store: its files are distinct and
\* each one before the last holds `ref: <the next>` and a newline.
IsChain(chain) ==
    /\ \A i, j \in 1..Len(chain) : i # j => chain[i] # chain[j]
    /\ \A i \in 1..(Len(chain) - 1) :
           /\ chain[i] \in DOMAIN refs
           /\ refs[chain[i]] = RefPrefix \o chain[i + 1] \o <<LF>>

Chains == SeqsOf(RefPaths \cup {RefsDir \o HeadsDir \o NameV1}, 1, Cardinality(RefPaths) + 1)

\* C9: ref_resolve(p0) on a chain p0 -> ... -> pk gives the identifier the
\* last file holds before its newline; when the last file of the chain does
\* not exist it gives None.
C9_ChainResolved ==
    arg.op = "resolve" =>
        \A chain \in Chains :
            (IsChain(chain) /\ chain[1] = arg.name) =>
                LET last == chain[Len(chain)]
                IN  /\ last \notin DOMAIN refs => out = None
                    /\ \A id \in RefIds :
                           (last \in DOMAIN refs /\ refs[last] = id \o <<LF>>)
                               => out = Ret(id)

\* C9 witness: HEAD has been resolved through two indirections to an
\* identifier.
C9_Witness ==
    /\ arg.op = "resolve" /\ arg.name = HEAD
    /\ \E chain \in Chains :
           /\ IsChain(chain) /\ chain[1] = HEAD /\ Len(chain) = 3
           /\ chain[3] \in DOMAIN refs
           /\ \E id \in RefIds : refs[chain[3]] = id \o <<LF>> /\ out = Ret(id)

\* C10: when the name is not HEAD, no kind is asked for and resolution of
\* the name collects exactly one candidate, object_find returns it.
C10_UniqueCandidate ==
    (arg.op = "find" /\ arg.fmt = NoFmt /\ arg.name # HEAD) =>
        LET c == object_resolve(refs, dirs, files, arg.name, arg.listing)
        IN  (c.tag = "ok" /\ Len(c.val) = 1) => out = c.val[1]

\* C11: object_find with no candidate fails with "No such reference", and
\* with more than one candidate with "Ambiguous reference".
C11_FailureCases ==
    arg.op = "find" =>
        LET c == object_resolve(refs, dirs, files, arg.name, arg.listing)
        IN  c.tag = "ok" =>
                /\ Len(c.val) = 0 => out = Raise("No such reference")
                /\ Len(c.val) > 1 => out = Raise("Ambiguous reference")

\* C12: for a name other than HEAD whose tag and branch lookups both end
\* (no cycle of references), the candidates of object_resolve hold the
\* identifier refs/tags/<name> resolves to and the identifier
\* refs/heads/<name> resolves to.
C12_RefCandidates ==
    (/\ arg.op = "candidates" /\ arg.name \notin {<<>>, HEAD}
     /\ \A d \in {TagsDir, HeadsDir} :
            ref_resolve(refs, RefsDir \o d \o arg.name).tag # "raise") =>
        \A d \in {TagsDir, HeadsDir} :
            LET r == ref_resolve(refs, RefsDir \o d \o arg.name)
            IN  (r.tag = "ok" /\ r.val \in RefIds) =>
                    /\ out.tag = "ok"
                    /\ \E i \in 1..Len(out.val) : out.val[i] = r

\* C13: with a kind asked for and one candidate, object_find returns the
\* candidate when its object is of that kind, and the identifier in the tree
\* header when the object is a commit and the kind asked for is tree.
C13_KindFollowed ==
    (arg.op = "find" /\ arg.fmt # NoFmt /\ arg.name # HEAD) =>
        LET c == object_resolve(refs, dirs, files, arg.name, arg.listing)
        IN  (c.tag = "ok" /\ Len(c.val) = 1) =>
                LET obj == object_read(dirs, files, c.val[1].val)
                IN  obj.tag = "ok" =>
                        /\ obj.val.fmt = arg.fmt => out = c.val[1]
                        /\ (obj.val.fmt = FmtCommit /\ arg.fmt = FmtTree)
                               => out = KvlmText(obj.val.kvlm, KeyTree)

----------------------------------------------------------------------------
(***************************************************************************)
(* The file system outside the object store.  A path is the sequence of    *)
(* its components (each a text); fsys maps the paths that exist to         *)
(*   [kind |-> "dir" or "file", data |-> the bytes of a file].             *)
(***************************************************************************)
DirEntry == [kind |-> "dir", data |-> <<>>]
FileEntry(data) == [kind |-> "file", data |-> data]

\* os.path.exists(p), os.path.isdir(p)
PathExists(w, p) == p \in DOMAIN w
PathIsDir(w, p) == p \in DOMAIN w /\ w[p].kind = "dir"

\* os.listdir(p): the paths directly under p
DirList(w, p) == {q \in DOMAIN w : Len(q) = Len(p) + 1 /\ SubSeq(q, 1, Len(p)) = p}

\* The proper ancestors of p among the paths of the model (the root above
\* the first component always exists).
Ancestors(p) == {SubSeq(p, 1, n) : n \in 1..(Len(p) - 1)}

\* os.makedirs(p, exist_ok): p and its missing ancestors become directories.
MakeDirs(w, p, exist_ok) ==
    IF \E a \in Ancestors(p) : a \in DOMAIN w /\ w[a].kind # "dir"
    THEN [res |-> Raise("NotADirectoryError"), fsys |-> w]
    ELSE IF p \in DOMAIN w /\ ~(exist_ok /\ w[p].kind = "dir")
    THEN [res |-> Raise("FileExistsError"), fsys |-> w]
    ELSE [res |-> None,
          fsys |-> [q \in (DOMAIN w) \cup Ancestors(p) \cup {p} |->
                       IF q \in DOMAIN w THEN w[q] ELSE DirEntry]]

\* with open(p, "wb") as f: f.write(data)
WriteFile(w, p, data) ==
    IF \E a \in Ancestors(p) : a \notin DOMAIN w
    THEN [res |-> Raise("FileNotFoundError"), fsys |-> w]
    ELSE IF \E a \in Ancestors(p) : w[a].kind # "dir"
    THEN [res |-> Raise("NotADirectoryError"), fsys |-> w]
    ELSE IF p \in DOMAIN w /\ w[p].kind = "dir"
    THEN [res |-> Raise("IsADirectoryError"), fsys |-> w]
    ELSE [res |-> None,
          fsys |-> [q \in (DOMAIN w) \cup {p} |-> IF q = p THEN FileEntry(data) ELSE w[q]]]

\* tree_checkout(repo, tree, path), from the i-th item of tree.items on:
\* the result and the file system afterwards.  TreeCheckoutItem is the body
\* of the loop for one item, on the object read for it; TreeCheckoutNext
\* goes on with the next item unless the body raised.  A tree that holds
\* itself recurses until Python's recursion limit; fuel counts the trees
\* left.
RECURSIVE TreeCheckoutFrom(_, _, _, _, _, _, _)
RECURSIVE TreeCheckoutItem(_, _, _, _, _, _, _)
RECURSIVE TreeCheckoutNext(_, _, _, _, _, _, _)
TreeCheckoutItem(ds, fs, w, item, path, fuel, obj) ==
    IF obj.tag = "raise" THEN [res |-> obj, fsys |-> w]
    ELSE IF obj.tag = "none"
    THEN [res |-> Raise("AttributeError"), fsys |-> w]          \* None.fmt
    ELSE IF obj.val.fmt = FmtTree
    THEN LET m == MakeDirs(w, Append(path, item.path), TRUE)
         IN  IF m.res.tag = "raise" THEN m
             ELSE IF fuel = 0 THEN [res |-> Raise("RecursionError"), fsys |-> m.fsys]
             ELSE TreeCheckoutFrom(ds, fs, m.fsys, obj.val.items, 1,
                                   Append(path, item.path), fuel - 1)
    ELSE IF obj.val.fmt = FmtBlob
    THEN WriteFile(w, Append(path, item.path), obj.val.blobdata)
    ELSE [res |-> None, fsys |-> w]

TreeCheckoutNext(ds, fs, r, items, i, path, fuel) ==
    IF r.res.tag = "raise" THEN r
    ELSE TreeCheckoutFrom(ds, fs, r.fsys, items, i + 1, path, fuel)

TreeCheckoutFrom(ds, fs, w, items, i, path, fuel) ==
    IF i > Len(items) THEN [res |-> None, fsys |-> w]
    ELSE TreeCheckoutNext(ds, fs,
                          TreeCheckoutItem(ds, fs, w, items[i], path, fuel,
                                           object_read(ds, fs, items[i].sha)),
                          items, i, path, fuel)

tree_checkout(ds, fs, w, tree, path) ==
    TreeCheckoutFrom(ds, fs, w, tree.items, 1, path, Cardinality(DOMAIN fs))

\* The target check of checkout and the materialization, on the object obj.
CheckoutInto(ds, fs, w, obj, path) ==
    IF obj.tag = "raise" THEN [res |-> obj, fsys |-> w]
    ELSE IF PathExists(w, path) /\ ~PathIsDir(w, path)
    THEN [res |-> Raise("Path exists and is not a directory"), fsys |-> w]
    ELSE IF PathExists(w, path) /\ DirList(w, path) # {}
    THEN [res |-> Raise("Directory is not empty"), fsys |-> w]
    ELSE LET m == IF PathExists(w, path) THEN [res |-> None, fsys |-> w]
                  ELSE MakeDirs(w, path, FALSE)
         IN  IF m.res.tag = "raise" THEN m
             ELSE IF obj.tag = "none" \/ obj.val.fmt # FmtTree
             THEN [res |-> Raise("AttributeError"), fsys |-> m.fsys]    \* no .items
             ELSE tree_checkout(ds, fs, m.fsys, obj.val, path)

\* checkout from obj, the object read for the name: a commit gives way to
\* its tree, then the target is checked.
CheckoutRead(ds, fs, w, obj, path) ==
    IF obj.tag = "raise" THEN [res |-> obj, fsys |-> w]
    ELSE IF obj.tag = "none"
    THEN [res |-> Raise("AttributeError"), fsys |-> w]          \* None.fmt
    ELSE IF obj.val.fmt # FmtCommit THEN CheckoutInto(ds, fs, w, obj, path)
    ELSE IF KvlmText(obj.val.kvlm, KeyTree).tag = "raise"
    THEN [res |-> KvlmText(obj.val.kvlm, KeyTree), fsys |-> w]
    ELSE CheckoutInto(ds, fs, w,
                      object_read(ds, fs, KvlmText(obj.val.kvlm, KeyTree).val), path)

\* checkout from sha, what object_find gave for the name.
CheckoutFound(ds, fs, w, sha, path) ==
    IF sha.tag = "raise" THEN [res |-> sha, fsys |-> w]
    ELSE IF sha.tag # "ok"
    THEN [res |-> Raise("TypeError"), fsys |-> w]               \* None[0:2]
    ELSE CheckoutRead(ds, fs, w, object_read(ds, fs, sha.val), path)

\* checkout(commit, path)
checkout(rs, ds, fs, w, commit, path, listing) ==
    CheckoutFound(ds, fs, w, object_find(rs, ds, fs, commit, NoFmt, TRUE, listing), path)

----------------------------------------------------------------------------
(***************************************************************************)
(* SpecWork: checkout and tree_checkout into a target directory.           *)
(***************************************************************************)
MaxWorkOps == 2   \* calls made on the target in one run

ModeGitlink == <<49, 54, 48, 48, 48, 48>>   \* b"160000"

Target == << <<116>> >>                     \* the target path "t"

IdOf(o) == object_write({}, <<>>, o).res.val

\* The tree of a subdirectory: one file x, the blob b"hi".
WorkSub == GitTree(<< [mode |-> ModeFile, path |-> <<120>>, sha |-> IdOf(RefBlob)] >>)

\* A tree of a file a and a subdirectory d.
WorkPlain ==
    GitTree(<< [mode |-> ModeFile, path |-> <<97>>, sha |-> IdOf(RefBlob)],
               [mode |-> ModeDir5, path |-> <<100>>, sha |-> IdOf(WorkSub)] >>)

\* A commit of that tree.
WorkCommit ==
    GitCommit([fields |-> << [key |-> KeyTree, list |-> FALSE,
                              vals |-> << IdOf(WorkPlain) >>] >>,
               hasmsg |-> TRUE, msg |-> <<109, LF>>])

\* A tree of a file a, a gitlink g to the commit id, and a subdirectory z.
WorkLinked(id) ==
    GitTree(<< [mode |-> ModeFile, path |-> <<97>>, sha |-> IdOf(RefBlob)],
               [mode |-> ModeGitlink, path |-> <<103>>, sha |-> id],
               [mode |-> ModeDir5, path |-> <<122>>, sha |-> IdOf(WorkSub)] >>)

\* The commits gitlinks name: two that are no object of the repository (one
\* in an existing fan-out directory, one in none) and one that is.
LinkIds == AbsentIds \cup {IdOf(WorkCommit)}

WorkObjs == {RefBlob, WorkSub, WorkPlain, WorkCommit} \cup {WorkLinked(id) : id \in LinkIds}

WorkStore == WriteAll({}, <<>>, WorkObjs)

WorkTrees == {IdOf(WorkPlain)} \cup {IdOf(WorkLinked(id)) : id \in LinkIds}

\* The target before the run: absent, a file, an empty directory, a
\* directory holding a file k, a directory holding a file d.
WorkInits ==
    LET at(S) == [q \in {e[1] : e \in S} |-> (CHOOSE e \in S : e[1] = q)[2]]
    IN  { at({}),
          at({<<Target, FileEntry(<<107>>)>>}),
          at({<<Target, DirEntry>>}),
          at({<<Target, DirEntry>>, <<Append(Target, <<107>>), FileEntry(<<107>>)>>}),
          at({<<Target, DirEntry>>, <<Append(Target, <<100>>), FileEntry(<<107>>)>>}) }

NoWork == [op |-> "none", name |-> <<>>, path |-> <<>>, listing |-> <<>>]

InitWork ==
    /\ dirs = WorkStore.dirs
    /\ files = WorkStore.files
    /\ refs = [r \in {RefHeadsMain} |-> IdOf(WorkCommit) \o <<LF>>]
    /\ mem = None
    /\ arg = NoWork
    /\ out = None
    /\ pc = "start"
    /\ nops = 0
    /\ fsys \in WorkInits

\* tree_checkout(repo, object_read(repo, id), path) for the id of a tree
TreeCheckout(id, path) ==
    /\ nops < MaxWorkOps
    /\ \E r \in {tree_checkout(dirs, files, fsys, object_read(dirs, files, id).val, path)} :
           /\ fsys' = r.fsys
           /\ out' = r.res
    /\ arg' = [op |-> "tree_checkout", name |-> id, path |-> path, listing |-> <<>>]
    /\ pc' = "materialized"
    /\ nops' = nops + 1
    /\ UNCHANGED <<dirs, files, refs, mem>>

\* checkout(commit, path)
Checkout(commit, path) ==
    /\ nops < MaxWorkOps
    /\ \E listing \in Listings(ListDir(files, PySlice(Lower(commit), 0, 2))) :
           /\ \E r \in {checkout(refs, dirs, files, fsys, commit, path, listing)} :
                  /\ fsys' = r.fsys
                  /\ out' = r.res
           /\ arg' = [op |-> "checkout", name |-> commit, path |-> path, listing |-> listing]
    /\ pc' = "checked out"
    /\ nops' = nops + 1
    /\ UNCHANGED <<dirs, files, refs, mem>>

NextWork ==
    \/ \E id \in WorkTrees : TreeCheckout(id, Target)
    \/ \E commit \in {NameMain, IdOf(WorkCommit), IdOf(WorkPlain)} : Checkout(commit, Target)

SpecWork == InitWork /\ [][NextWork]_vars

----------------------------------------------------------------------------
\* C14: checkout into a target that is a directory with entries fails with
\* "Directory is not empty", into a target that is no directory with "Path
\* exists and is not a directory", and leaves the file system as it was.
C14_TargetChecked ==
    [][ \A commit \in {NameMain, IdOf(WorkCommit), IdOf(WorkPlain)} :
            Checkout(commit, Target) =>
                /\ (PathIsDir(fsys, Target) /\ DirList(fsys, Target) # {})
                       => (out' = Raise("Directory is not empty") /\ fsys' = fsys)
                /\ (PathExists(fsys, Target) /\ ~PathIsDir(fsys, Target))
                       => (out' = Raise("Path exists and is not a directory")
                           /\ fsys' = fsys) ]_vars

\* The entries of the tree named by id, as object_read gives them.
ItemsOf(id) == object_read(dirs, files, id).val.items

\* C17: tree_checkout of a tree with a gitlink whose commit is no object of
\* the repository, into an empty directory, ends without error, writes
\* nothing at the gitlink's path, and writes every file and subdirectory
\* of the tree.
C17_GitlinkSkipped ==
    [][ \A id \in WorkTrees :
            (/\ TreeCheckout(id, Target)
             /\ PathIsDir(fsys, Target) /\ DirList(fsys, Target) = {}
             /\ \E i \in 1..Len(ItemsOf(id)) :
                    /\ ItemsOf(id)[i].mode = ModeGitlink
                    /\ ItemsOf(id)[i].sha \notin DOMAIN files) =>
                /\ out' = None
                /\ Append(Target, <<103>>) \notin DOMAIN fsys'
                /\ fsys'[Append(Target, <<97>>)] = FileEntry(<<104, 105>>)
                /\ fsys'[Append(Target, <<122>>)] = DirEntry
                /\ fsys'[Target \o << <<122>>, <<120>> >>] = FileEntry(<<104, 105>>) ]_vars

----------------------------------------------------------------------------
(***************************************************************************)
(* The repository handle (repository.py) and repo_create (create.py).      *)
(* A configuration is a sequence of sections                               *)
(*   [name |-> text, opts |-> sequence of [key |-> text, val |-> text]].   *)
(***************************************************************************)
DotGit == <<46, 103, 105, 116>>                \* ".git"
NameBranches == <<98, 114, 97, 110, 99, 104, 101, 115>>     \* "branches"
NameObjects == <<111, 98, 106, 101, 99, 116, 115>>     \* "objects"
NameRefs == <<114, 101, 102, 115>>                 \* "refs"
NameTags == <<116, 97, 103, 115>>                 \* "tags"
NameHeads == <<104, 101, 97, 100, 115>>               \* "heads"
NameDescription == <<100, 101, 115, 99, 114, 105, 112, 116, 105, 111, 110>>    \* "description"
NameConfig == <<99, 111, 110, 102, 105, 103>>      \* "config"
NameCore == <<99, 111, 114, 101>>                   \* "core"
KeyFormatVersion ==             \* "repositoryformatversion"
    <<114, 101, 112, 111, 115, 105, 116, 111, 114, 121, 102, 111, 114, 109, 97, 116, 118, 101, 114, 115, 105, 111, 110>>
KeyFilemode == <<102, 105, 108, 101, 109, 111, 100, 101>>    \* "filemode"
KeyBare == <<98, 97, 114, 101>>                   \* "bare"
TextFalse == <<102, 97, 108, 115, 101>>            \* "false"

\* "Unnamed repository; edit this file to name the repository.\n"
DescriptionText ==
    <<85, 110, 110, 97, 109, 101, 100, 32, 114, 101, 112, 111, 115, 105, 116, 111, 114, 121, 59, 32, 101, 100, 105, 116, 32, 116, 104, 105, 115, 32, 102, 105, 108, 101, 32, 116, 111, 32, 110, 97, 109, 101, 32, 116, 104, 101, 32, 114, 101, 112, 111, 115, 105, 116, 111, 114, 121, 46, 10>>

\* "ref: refs/heads/master\n"
HeadText == <<114, 101, 102, 58, 32, 114, 101, 102, 115, 47, 104, 101, 97, 100, 115, 47, 109, 97, 115, 116, 101, 114, 10>>

\* A default configuration of format version 1.
DefaultConfigVersionOne ==
    << [name |-> NameCore,
        opts |-> << [key |-> KeyFormatVersion, val |-> <<49>>],
                    [key |-> KeyFilemode, val |-> TextFalse],
                    [key |-> KeyBare, val |-> TextFalse] >>] >>

\* repo_default_config()
repo_default_config ==
    << [name |-> NameCore,
        opts |-> << [key |-> KeyFormatVersion, val |-> <<ZERO>>],
                    [key |-> KeyFilemode, val |-> TextFalse],
                    [key |-> KeyBare, val |-> TextFalse] >>] >>

\* config.write(f): "[name]\n", "key = value\n" for each option, "\n".
RECURSIVE WriteOpts(_)
WriteOpts(opts) ==
    IF opts = <<>> THEN <<>>
    ELSE Head(opts).key \o <<SP, 61, SP>> \o Head(opts).val \o <<LF>> \o WriteOpts(Tail(opts))

RECURSIVE ConfigWrite(_)
ConfigWrite(conf) ==
    IF conf = <<>> THEN <<>>
    ELSE <<91>> \o Head(conf).name \o <<93, LF>> \o WriteOpts(Head(conf).opts) \o <<LF>>
             \o ConfigWrite(Tail(conf))

\* text.split("\n")
RECURSIVE SplitLines(_)
SplitLines(text) ==
    LET nl == Find(text, LF, 0)
    IN  IF nl < 0 THEN <<text>>
        ELSE <<PySlice(text, 0, nl)>> \o SplitLines(PyFrom(text, nl + 1))

\* The 0-based index of the first "=" or ":" of a line, or -1.
DelimiterAt(line) ==
    LET hits == {i \in 1..Len(line) : line[i] \in {61, 58}}
    IN  IF hits = {} THEN -1 ELSE (CHOOSE i \in hits : \A j \in hits : i <= j) - 1

\* conf.read on the text of a file, line by line from the i-th: blank lines
\* and comments are passed, "[name]" opens a section, "key = value" (or
\* "key: value") adds an option to the open section, with the key in lower
\* case and both sides stripped.
RECURSIVE ConfigReadFrom(_, _, _)
ConfigReadFrom(lines, i, conf) ==
    IF i > Len(lines) THEN Ret(conf)
    ELSE LET line == RStrip(LStrip(lines[i]))
             d == DelimiterAt(line)
         IN  IF line = <<>> \/ Head(line) \in {35, 59} THEN ConfigReadFrom(lines, i + 1, conf)
             ELSE IF Head(line) = 91 /\ Len(line) > 2 /\ line[Len(line)] = 93
             THEN IF \E k \in 1..Len(conf) : conf[k].name = PySlice(line, 1, -1)
                  THEN Raise("DuplicateSectionError")
                  ELSE ConfigReadFrom(lines, i + 1,
                           Append(conf, [name |-> PySlice(line, 1, -1), opts |-> <<>>]))
             ELSE IF conf = <<>> THEN Raise("MissingSectionHeaderError")
             ELSE IF d < 0 THEN Raise("ParsingError")
             ELSE LET key == Lower(RStrip(PySlice(line, 0, d)))
                      last == conf[Len(conf)]
                  IN  IF \E k \in 1..Len(last.opts) : last.opts[k].key = key
                      THEN Raise("DuplicateOptionError")
                      ELSE ConfigReadFrom(lines, i + 1,
                               [conf EXCEPT ![Len(conf)].opts =
                                    Append(@, [key |-> key,
                                               val |-> LStrip(PyFrom(line, d + 1))])])

ConfigRead(text) == ConfigReadFrom(SplitLines(text), 1, <<>>)

\* conf.get(section, key)
ConfigGet(conf, section, key) ==
    IF ~\E k \in 1..Len(conf) : conf[k].name = section THEN Raise("NoSectionError")
    ELSE LET sec == conf[CHOOSE k \in 1..Len(conf) : conf[k].name = section]
         IN  IF ~\E k \in 1..Len(sec.opts) : sec.opts[k].key = key
             THEN Raise("NoOptionError")
             ELSE Ret(sec.opts[CHOOSE k \in 1..Len(sec.opts) : sec.opts[k].key = key].val)

\* The checks of GitRepository.__init__ without force, on the configuration
\* read.
OpenChecked(handle) ==
    LET v == ConfigGet(handle.conf, NameCore, KeyFormatVersion)
        vers == ParseInt(v.val)
    IN  IF v.tag = "raise" THEN v
        ELSE IF vers.tag = "raise" THEN vers
        ELSE IF vers.val # 0 THEN Raise("Unsupported repositoryformatversion")
        ELSE Ret(handle)

\* GitRepository(path, force)
GitRepository(w, path, force) ==
    LET gitdir == Append(path, DotGit)
        cf == Append(gitdir, NameConfig)
        conf == IF PathExists(w, cf) /\ w[cf].kind = "file" THEN ConfigRead(w[cf].data)
                ELSE Ret(<<>>)         \* no file, or one that cannot be opened
    IN  IF ~(force \/ PathIsDir(w, gitdir)) THEN Raise("Not a Git repository")
        ELSE IF conf.tag = "raise" THEN conf
        ELSE IF ~PathExists(w, cf) /\ ~force THEN Raise("Configuration file missing")
        ELSE IF force
             THEN Ret([worktree |-> path, gitdir |-> gitdir, conf |-> conf.val])
        ELSE OpenChecked([worktree |-> path, gitdir |-> gitdir, conf |-> conf.val])

\* repo_dir(repo, *path, mkdir=True) in the git directory: the result and
\* the file system afterwards.
RepoDirMake(w, p) ==
    IF PathExists(w, p)
    THEN IF PathIsDir(w, p) THEN [res |-> None, fsys |-> w]
         ELSE [res |-> Raise("Not a directory"), fsys |-> w]
    ELSE MakeDirs(w, p, FALSE)

\* The steps of create_git_structure from the n-th: four directories, then
\* the files description, HEAD and config.
RECURSIVE CreateFrom(_, _, _)
CreateFrom(w, gitdir, n) ==
    IF n > 7 THEN [res |-> None, fsys |-> w]
    ELSE LET r == IF n = 1 THEN RepoDirMake(w, Append(gitdir, NameBranches))
                  ELSE IF n = 2 THEN RepoDirMake(w, Append(gitdir, NameObjects))
                  ELSE IF n = 3 THEN RepoDirMake(w, gitdir \o <<NameRefs, NameTags>>)
                  ELSE IF n = 4 THEN RepoDirMake(w, gitdir \o <<NameRefs, NameHeads>>)
                  ELSE IF n = 5 THEN WriteFile(w, Append(gitdir, NameDescription),
                                               DescriptionText)
                  ELSE IF n = 6 THEN WriteFile(w, Append(gitdir, HEAD), HeadText)
                  ELSE WriteFile(w, Append(gitdir, NameConfig),
                                 ConfigWrite(repo_default_config))
         IN  IF r.res.tag = "raise" THEN r ELSE CreateFrom(r.fsys, gitdir, n + 1)

create_git_structure(w, repo) == CreateFrom(w, repo.gitdir, 1)

\* A repo_create that does not look at the git directory.
WorktreeOnlyCheck(w, repo) == ~PathIsDir(w, repo.worktree)

\* not os.path.isdir(repo.worktree) or (os.path.exists(repo.gitdir) and
\* os.listdir(repo.gitdir))
NotValidOrEmpty(w, repo) ==
    \/ ~PathIsDir(w, repo.worktree)
    \/ PathExists(w, repo.gitdir) /\ DirList(w, repo.gitdir) # {}

\* repo_create(path): the handle or the error, and the file system afterwards.
repo_create(w, path) ==
    LET repo == GitRepository(w, path, TRUE)
    IN  IF repo.tag = "raise" THEN [res |-> repo, fsys |-> w]
        ELSE IF PathExists(w, path)
        THEN IF PathIsDir(w, path) /\ PathExists(w, repo.val.gitdir)
                    /\ ~PathIsDir(w, repo.val.gitdir)
             THEN [res |-> Raise("NotADirectoryError"), fsys |-> w]     \* os.listdir
             ELSE IF NotValidOrEmpty(w, repo.val)
             THEN [res |-> Raise("is not a valid or empty directory!"), fsys |-> w]
             ELSE LET c == create_git_structure(w, repo.val)
                  IN  [res |-> IF c.res.tag = "raise" THEN c.res ELSE repo, fsys |-> c.fsys]
        ELSE LET m == MakeDirs(w, path, FALSE)
                 c == create_git_structure(m.fsys, repo.val)
             IN  IF m.res.tag = "raise" THEN m
                 ELSE [res |-> IF c.res.tag = "raise" THEN c.res ELSE repo, fsys |-> c.fsys]

\* path/to/file as text: the components joined by "/"
RECURSIVE JoinPath(_)
JoinPath(p) ==
    IF Len(p) = 1 THEN p[1] ELSE p[1] \o <<47>> \o JoinPath(Tail(p))

\* The files under the git directory as ref_resolve sees them: the path
\* relative to the git directory -> the text of the file.
RefFiles(w, gitdir) ==
    LET under == {q \in DOMAIN w : /\ Len(q) > Len(gitdir)
                                   /\ SubSeq(q, 1, Len(gitdir)) = gitdir
                                   /\ w[q].kind = "file"}
        rel(q) == JoinPath(SubSeq(q, Len(gitdir) + 1, Len(q)))
    IN  [n \in {rel(q) : q \in under} |-> w[CHOOSE q \in under : rel(q) = n].data]

----------------------------------------------------------------------------
(***************************************************************************)
(* The life of a repository: repo_create, GitRepository(path) and          *)
(* ref_resolve(repo, "HEAD") on paths of a small file system.              *)
(***************************************************************************)
MaxRepoOps == 3    \* calls made in one run

RepoPath == << <<114>> >>               \* "r"
NestedPath == << <<114>>, <<115>> >>     \* "r/s"
RepoPaths == {RepoPath, NestedPath}

\* "[core]\nrepositoryformatversion = 1\n\n"
ConfigVersionOne ==
    ConfigWrite(<< [name |-> NameCore,
                    opts |-> << [key |-> KeyFormatVersion, val |-> <<49>>] >>] >>)

\* The file system before the run: nothing; r a file; r an empty directory;
\* r a directory holding a file; r with an empty .git; r with a file .git;
\* r with a .git holding only HEAD; r with a .git holding only a config of
\* version 1.
RepoInits ==
    LET at(S) == [q \in {e[1] : e \in S} |-> (CHOOSE e \in S : e[1] = q)[2]]
        g == Append(RepoPath, DotGit)
    IN  { at({}),
          at({<<RepoPath, FileEntry(<<107>>)>>}),
          at({<<RepoPath, DirEntry>>}),
          at({<<RepoPath, DirEntry>>, <<Append(RepoPath, <<107>>), FileEntry(<<107>>)>>}),
          at({<<RepoPath, DirEntry>>, <<g, DirEntry>>}),
          at({<<RepoPath, DirEntry>>, <<g, FileEntry(<<107>>)>>}),
          at({<<RepoPath, DirEntry>>, <<g, DirEntry>>,
              <<Append(g, HEAD), FileEntry(HeadText)>>}),
          at({<<RepoPath, DirEntry>>, <<g, DirEntry>>,
              <<Append(g, NameConfig), FileEntry(ConfigVersionOne)>>}) }

NoRepo == [op |-> "none", path |-> <<>>]

InitRepo ==
    /\ dirs = {}
    /\ files = <<>>
    /\ refs = <<>>
    /\ mem = None
    /\ arg = NoRepo
    /\ out = None
    /\ pc = "start"
    /\ nops = 0
    /\ fsys \in RepoInits

\* repo = repo_create(path)
RepoCreate(path) ==
    /\ nops < MaxRepoOps
    /\ \E r \in {repo_create(fsys, path)} :
           /\ fsys' = r.fsys
           /\ out' = r.res
           /\ mem' = IF r.res.tag = "ok" THEN r.res ELSE mem
    /\ arg' = [op |-> "repo_create", path |-> path]
    /\ pc' = "created"
    /\ nops' = nops + 1
    /\ UNCHANGED <<dirs, files, refs>>

\* repo = GitRepository(path)
RepoOpen(path) ==
    /\ nops < MaxRepoOps
    /\ \E r \in {GitRepository(fsys, path, FALSE)} :
           /\ out' = r
           /\ mem' = IF r.tag = "ok" THEN r ELSE mem
    /\ arg' = [op |-> "open", path |-> path]
    /\ pc' = "opened"
    /\ nops' = nops + 1
    /\ UNCHANGED <<dirs, files, refs, fsys>>

\* ref_resolve(repo, "HEAD") on the handle held
RepoResolveHead ==
    /\ nops < MaxRepoOps
    /\ mem.tag = "ok"
    /\ out' = ref_resolve(RefFiles(fsys, mem.val.gitdir), HEAD)
    /\ arg' = [op |-> "ref_resolve", path |-> mem.val.worktree]
    /\ pc' = "resolved"
    /\ nops' = nops + 1
    /\ UNCHANGED <<dirs, files, refs, mem, fsys>>

NextRepo ==
    \/ \E path \in RepoPaths : RepoCreate(path)
    \/ \E path \in RepoPaths : RepoOpen(path)
    \/ RepoResolveHead

SpecRepo == InitRepo /\ [][NextRepo]_vars

----------------------------------------------------------------------------
\* The git directory of path holds the directories branches, objects,
\* refs/tags and refs/heads, the file description, a HEAD reading
\* "ref: refs/heads/master\n" and a config whose core section gives
\* repositoryformatversion as 0.
GitLayout(w, path) ==
    LET g == Append(path, DotGit)
        cf == Append(g, NameConfig)
    IN  /\ PathIsDir(w, Append(g, NameBranches))
        /\ PathIsDir(w, Append(g, NameObjects))
        /\ PathIsDir(w, g \o <<NameRefs, NameTags>>)
        /\ PathIsDir(w, g \o <<NameRefs, NameHeads>>)
        /\ PathExists(w, Append(g, NameDescription))
        /\ w[Append(g, NameDescription)].kind = "file"
        /\ PathExists(w, Append(g, HEAD))
        /\ w[Append(g, HEAD)] = FileEntry(HeadText)
        /\ PathExists(w, cf)
        /\ w[cf].kind = "file"
        /\ ConfigRead(w[cf].data).tag = "ok"
        /\ ConfigGet(ConfigRead(w[cf].data).val, NameCore, KeyFormatVersion) = Ret(<<ZERO>>)

----------------------------------------------------------------------------
(***************************************************************************)
(* log_mermaid: the walk over the parents of a commit.  The recursion is   *)
(* kept as a stack of frames [sha, parents, i]: i = 0 is a call that has   *)
(* not yet looked at sha, i >= 1 is the for loop about to take parents[i]. *)
(* mem holds [stack, seen, lines]; a line is the node line of a commit or  *)
(* the edge line from a commit to a parent.                                *)
(***************************************************************************)
MaxFanout == 2     \* parents of one commit

KeyParent == <<112, 97, 114, 101, 110, 116>>     \* b"parent"

LogA == Zeros(38) \o <<97, 97>>
LogB == Zeros(38) \o <<98, 98>>
LogC == Zeros(38) \o <<99, 99>>
LogIds == {LogA, LogB, LogC}

\* A commit with the parents ps, as kvlm_parse gives it back.
CommitOf(ps) ==
    GitCommit([fields |-> << [key |-> KeyTree, list |-> FALSE, vals |-> <<ShaA>>] >>
                          \o (IF ps = <<>> THEN <<>>
                              ELSE << [key |-> KeyParent, list |-> Len(ps) > 1, vals |-> ps] >>),
               hasmsg |-> TRUE, msg |-> <<109, LF>>])

\* The file of an object as object_write lays it out.
FileOf(obj) == ZlibCompress(Frame(obj.fmt, Serialize(obj).val))

ParentLists == UNION {[1..n -> LogIds] : n \in 0..MaxFanout}

\* What the third identifier names: a commit without parents, a tag, a blob.
LogLeaves ==
    { CommitOf(<<>>),
      GitTag([fields |-> << [key |-> KeyObject, list |-> FALSE, vals |-> <<LogA>>] >>,
              hasmsg |-> TRUE, msg |-> <<109, LF>>]),
      GitBlob(<<104, 105>>) }

\* The stores walked: files under LogA and LogB hold commits with any
\* parents among the three identifiers (so the parent links may form a
\* cycle, which no store written by object_write alone has); LogC is no
\* object, or one of the leaves.
LogStores ==
    LET two(pa, pb) == [x \in {LogA, LogB} |->
                            FileOf(CommitOf(IF x = LogA THEN pa ELSE pb))]
        three(pa, pb, c) == [x \in LogIds |->
                                 IF x = LogC THEN FileOf(c) ELSE two(pa, pb)[x]]
    IN  {two(pa, pb) : pa \in ParentLists, pb \in {<<>>, <<LogA>>, <<LogC>>, <<LogB, LogC>>}}
            \cup {three(pa, pb, c) : pa \in ParentLists,
                                     pb \in {<<>>, <<LogA>>, <<LogC>>, <<LogB, LogC>>},
                                     c \in LogLeaves}

LogDirs == {PySlice(LogA, 0, 2)}

\* object_read(repo, sha) for each store walked and each identifier in it,
\* computed once.
LogObjects ==
    {[store |-> fs, sha |-> sha, obj |-> object_read(LogDirs, fs, sha)] :
         fs \in LogStores, sha \in LogIds}

LogRead(fs, sha) == (CHOOSE e \in LogObjects : e.store = fs /\ e.sha = sha).obj

NoLog == [op |-> "none", name |-> <<>>]

InitLog ==
    /\ dirs = LogDirs
    /\ files \in LogStores
    /\ refs = <<>>
    /\ mem = [stack |-> <<>>, seen |-> {}, lines |-> <<>>]
    /\ arg = NoLog
    /\ out = None
    /\ pc = "start"
    /\ nops = 0
    /\ fsys = <<>>

NodeLine(sha) == [kind |-> "node", sha |-> sha, parent |-> <<>>]
EdgeLine(sha, parent) == [kind |-> "edge", sha |-> sha, parent |-> parent]

\* A walk that takes no identifier as seen.
NeverSeen(seen, sha) == FALSE

\* sha in seen
AlreadySeen(seen, sha) == sha \in seen

\* log_mermaid(repo, sha, set())
LogStart(sha) ==
    /\ pc = "start"
    /\ mem' = [stack |-> << [sha |-> sha, parents |-> <<>>, i |-> 0] >>,
               seen |-> {}, lines |-> <<>>]
    /\ arg' = [op |-> "log", name |-> sha]
    /\ pc' = "walking"
    /\ UNCHANGED <<dirs, files, refs, out, nops, fsys>>

\* return from the call on top of the stack
LogReturn(stack, seen, lines) ==
    /\ mem' = [stack |-> SubSeq(stack, 1, Len(stack) - 1), seen |-> seen, lines |-> lines]
    /\ pc' = IF Len(stack) = 1 THEN "done" ELSE "walking"
    /\ out' = None

\* an exception leaves every call
LogFail(e, seen, lines) ==
    /\ mem' = [stack |-> <<>>, seen |-> seen, lines |-> lines]
    /\ pc' = "failed"
    /\ out' = Raise(e)

\* The body of log_mermaid after seen.add(sha), on the object read.
LogVisit(commit, top, seen) ==
    LET kvlm == commit.val.kvlm
        f == kvlm.fields[KeyIndex(kvlm, KeyParent)]
    IN  IF commit.tag = "raise" THEN LogFail(commit.err, seen, mem.lines)
        ELSE IF commit.tag = "none" \/ commit.val.fmt \in {FmtBlob, FmtTree}
        THEN LogFail("AttributeError", seen, mem.lines)      \* commit.kvlm
        ELSE IF ~kvlm.hasmsg THEN LogFail("KeyError", seen, mem.lines)
        ELSE IF commit.val.fmt # FmtCommit
        THEN LogFail("AssertionError", seen, Append(mem.lines, NodeLine(top.sha)))
        ELSE IF ~HasKey(kvlm, KeyParent)
        THEN LogReturn(mem.stack, seen, Append(mem.lines, NodeLine(top.sha)))
        ELSE /\ mem' = [stack |-> [mem.stack EXCEPT ![Len(mem.stack)] =
                                       [sha |-> top.sha,
                                        parents |-> IF f.list THEN f.vals ELSE <<f.vals[1]>>,
                                        i |-> 1]],
                        seen |-> seen,
                        lines |-> Append(mem.lines, NodeLine(top.sha))]
             /\ pc' = "walking"
             /\ out' = None

\* The call on top of the stack from its first line.
LogEnter ==
    /\ pc = "walking"
    /\ mem.stack[Len(mem.stack)].i = 0
    /\ \E top \in {mem.stack[Len(mem.stack)]} :
           IF AlreadySeen(mem.seen, top.sha)
           THEN LogReturn(mem.stack, mem.seen, mem.lines)
           ELSE \E commit \in {LogRead(files, top.sha)} :
                    LogVisit(commit, top, mem.seen \cup {top.sha})
    /\ UNCHANGED <<dirs, files, refs, arg, nops, fsys>>

\* One turn of "for parent in parents", or its end.
LogParent ==
    /\ pc = "walking"
    /\ mem.stack[Len(mem.stack)].i > 0
    /\ \E top \in {mem.stack[Len(mem.stack)]} :
           IF top.i > Len(top.parents) THEN LogReturn(mem.stack, mem.seen, mem.lines)
           ELSE IF \E k \in 1..Len(top.parents[top.i]) : top.parents[top.i][k] >= 128
           THEN LogFail("UnicodeDecodeError", mem.seen, mem.lines)
           ELSE /\ mem' = [stack |-> Append([mem.stack EXCEPT ![Len(mem.stack)].i = top.i + 1],
                                            [sha |-> top.parents[top.i],
                                             parents |-> <<>>, i |-> 0]),
                           seen |-> mem.seen,
                           lines |-> Append(mem.lines,
                                            EdgeLine(top.sha, top.parents[top.i]))]
                /\ pc' = "walking"
                /\ out' = None
    /\ UNCHANGED <<dirs, files, refs, arg, nops, fsys>>

NextLog ==
    \/ \E sha \in {LogA, LogB} : LogStart(sha)
    \/ LogEnter
    \/ LogParent

SpecLog == InitLog /\ [][NextLog]_vars

\* The interpreter runs a call that was made until it returns or raises.
SpecLogFair == SpecLog /\ WF_vars(NextLog)

----------------------------------------------------------------------------
\* The identifiers reachable from sha over the parent headers of the
\* commits in the store.
RECURSIVE ReachFrom(_, _)
ReachFrom(todo, done) ==
    IF todo = {} THEN done
    ELSE LET sha == CHOOSE x \in todo : TRUE
             o == object_read(dirs, files, sha)
             ps == IF o.tag = "ok" /\ o.val.fmt = FmtCommit /\ HasKey(o.val.kvlm, KeyParent)
                   THEN LET f == o.val.kvlm.fields[KeyIndex(o.val.kvlm, KeyParent)]
                        IN  {f.vals[k] : k \in 1..Len(f.vals)}
                   ELSE {}
         IN  ReachFrom((todo \cup ps) \ (done \cup {sha}), done \cup {sha})

\* Some commit reachable from the start has itself among its ancestors.
OnCycle ==
    \E x \in ReachFrom({arg.name}, {}) :
        LET o == object_read(dirs, files, x)
        IN  /\ o.tag = "ok" /\ o.val.fmt = FmtCommit /\ HasKey(o.val.kvlm, KeyParent)
            /\ LET f == o.val.kvlm.fields[KeyIndex(o.val.kvlm, KeyParent)]
               IN  x \in ReachFrom({f.vals[k] : k \in 1..Len(f.vals)}, {})

NodeLinesOnce ==
    \A i, j \in 1..Len(mem.lines) :
        (mem.lines[i].kind = "node" /\ mem.lines[j] = mem.lines[i]) => i = j

\* C18: every log walk ends, also where the parent links form a cycle; no
\* commit's node line is emitted twice, and a call on an identifier already
\* in seen returns without reading an object or emitting a line.
C18_WalkEnds ==
    /\ [](pc \in {"walking", "done", "failed"} => NodeLinesOnce)
    /\ [][(LogEnter /\ mem.stack[Len(mem.stack)].sha \in mem.seen)
              => (mem'.lines = mem.lines /\ mem'.seen = mem.seen
                  /\ Len(mem'.stack) = Len(mem.stack) - 1)]_vars
    /\ (pc = "walking") ~> (pc \in {"done", "failed"})

\* A walk over commits whose parent links form a cycle ended without error,
\* each reachable commit's node line emitted.
C18_Witness ==
    /\ pc = "done"
    /\ OnCycle
    /\ \A x \in ReachFrom({arg.name}, {}) : \E i \in 1..Len(mem.lines) : mem.lines[i] = NodeLine(x)

----------------------------------------------------------------------------
(***************************************************************************)
(* Two object_write calls of one object and an object_read of its          *)
(* identifier, run by three processes on one repository.  pc, out and mem  *)
(* are per process; mem[p] is what p found at the object's path when it    *)
(* looked.  A writer's file is written in MaxChunks write calls, each at   *)
(* the writer's own offset; nops[p] counts the write calls p has made.     *)
(***************************************************************************)
MaxChunks == 2     \* write calls that flush one file

Writers == {"w1", "w2"}
Readers == {"r"}
Procs == Writers \cup Readers

RaceObj == GitBlob(<<104, 105>>)
RaceSha == Sha1Hex(Frame(RaceObj.fmt, Serialize(RaceObj).val))
Complete == ZlibCompress(Frame(RaceObj.fmt, Serialize(RaceObj).val))

\* The bytes of the n-th write call are content[ChunkStart(n) + 1 .. ChunkStart(n + 1)].
ChunkStart(n) ==
    LET size == (Len(Complete) + MaxChunks - 1) \div MaxChunks
    IN  IF (n - 1) * size > Len(Complete) THEN Len(Complete) ELSE (n - 1) * size

\* write(2) of data at the offset off of a file holding old: a gap is read
\* back as NUL bytes.
WriteAt(old, off, data) ==
    [i \in 1..(IF Len(old) > off + Len(data) THEN Len(old) ELSE off + Len(data)) |->
        IF i > off /\ i <= off + Len(data) THEN data[i - off]
        ELSE IF i <= Len(old) THEN old[i] ELSE NUL]

NotLooked == [looked |-> FALSE, found |-> FALSE, content |-> <<>>]
Looked(fs) ==
    [looked |-> TRUE, found |-> RaceSha \in DOMAIN fs,
     content |-> IF RaceSha \in DOMAIN fs THEN fs[RaceSha] ELSE <<>>]

InitRace ==
    /\ dirs = {}
    /\ files \in {<<>>, [x \in {RaceSha} |-> Complete]}
    /\ refs = <<>>
    /\ mem = [p \in Procs |-> NotLooked]
    /\ arg = [op |-> "race", name |-> RaceSha]
    /\ out = [p \in Procs |-> None]
    /\ pc = [p \in Procs |-> "start"]
    /\ nops = [p \in Procs |-> 0]
    /\ fsys = <<>>

\* object_write up to "if not os.path.exists(path)"
WriteCheck(p) ==
    /\ pc[p] = "start"
    /\ dirs' = repo_file(dirs, RaceSha, TRUE).dirs
    /\ mem' = [mem EXCEPT ![p] = Looked(files)]
    /\ IF RaceSha \in DOMAIN files
       THEN pc' = [pc EXCEPT ![p] = "done"] /\ out' = [out EXCEPT ![p] = Ret(RaceSha)]
       ELSE pc' = [pc EXCEPT ![p] = "open"] /\ out' = out
    /\ UNCHANGED <<files, refs, arg, nops, fsys>>

\* open(path, "wb"): the file is created, or cut to no bytes
WriteOpen(p) ==
    /\ pc[p] = "open"
    /\ files' = [x \in (DOMAIN files) \cup {RaceSha} |-> IF x = RaceSha THEN <<>> ELSE files[x]]
    /\ pc' = [pc EXCEPT ![p] = "write"]
    /\ UNCHANGED <<dirs, refs, mem, arg, out, nops, fsys>>

\* One write call of f.write(zlib.compress(result)): the next chunk, at the
\* offset this writer has reached.
WriteChunk(p) ==
    /\ pc[p] = "write"
    /\ \E n \in {nops[p] + 1} :
           /\ files' = [files EXCEPT ![RaceSha] =
                            WriteAt(@, ChunkStart(n), SubSeq(Complete, ChunkStart(n) + 1,
                                                             ChunkStart(n + 1)))]
           /\ nops' = [nops EXCEPT ![p] = n]
           /\ pc' = [pc EXCEPT ![p] = IF n = MaxChunks THEN "close" ELSE "write"]
    /\ UNCHANGED <<dirs, refs, mem, arg, out, fsys>>

\* the end of the with block, and return sha
WriteClose(p) ==
    /\ pc[p] = "close"
    /\ pc' = [pc EXCEPT ![p] = "done"]
    /\ out' = [out EXCEPT ![p] = Ret(RaceSha)]
    /\ UNCHANGED <<dirs, files, refs, mem, arg, nops, fsys>>

\* object_read up to "if not os.path.isfile(path): return None"
ReadCheck(p) ==
    /\ pc[p] = "start"
    /\ IF ~repo_file(dirs, RaceSha, FALSE).path
       THEN pc' = [pc EXCEPT ![p] = "done"] /\ out' = [out EXCEPT ![p] = Raise("TypeError")]
       ELSE IF RaceSha \notin DOMAIN files
       THEN pc' = [pc EXCEPT ![p] = "done"] /\ out' = [out EXCEPT ![p] = None]
       ELSE pc' = [pc EXCEPT ![p] = "read"] /\ out' = out
    /\ UNCHANGED <<dirs, files, refs, mem, arg, nops, fsys>>

\* open(path, "rb"), f.read() and the rest of object_read on the bytes read
ReadFile(p) ==
    /\ pc[p] = "read"
    /\ mem' = [mem EXCEPT ![p] = Looked(files)]
    /\ \E r \in {object_read(dirs, files, RaceSha)} : out' = [out EXCEPT ![p] = r]
    /\ pc' = [pc EXCEPT ![p] = "done"]
    /\ UNCHANGED <<dirs, files, refs, arg, nops, fsys>>

NextRace ==
    \/ \E p \in Writers : WriteCheck(p)
    \/ \E p \in Writers : WriteOpen(p)
    \/ \E p \in Writers : WriteChunk(p)
    \/ \E p \in Writers : WriteClose(p)
    \/ \E p \in Readers : ReadCheck(p)
    \/ \E p \in Readers : ReadFile(p)

SpecRace == InitRace /\ [][NextRace]_vars

----------------------------------------------------------------------------
\* C19: no process that looked at the object's path (a writer at its
\* existence check, the reader at its read) found a file holding anything
\* but the complete compressed framed form.
C19_NoPartialFile ==
    \A p \in Procs : (mem[p].looked /\ mem[p].found) => mem[p].content = Complete

----------------------------------------------------------------------------
(***************************************************************************)
(* index_read: the index file of version 2.  An entry read is the record   *)
(* of the fields GitIndexEntry keeps.                                      *)
(***************************************************************************)
MaxEntries == 2    \* entries of an index file

NameIndex == <<105, 110, 100, 101, 120>>     \* "index"
SigDIRC == <<68, 73, 82, 67>>                \* b"DIRC"
EntryFixedLen == 62
NameSentinel == 4095                         \* 0xFFF
MaskAssumeValid == 32768                     \* 0b1000000000000000
MaskExtended == 16384                        \* 0b0100000000000000
MaskStage == 12288                           \* 0b0011000000000000
MaskNameLength == 4095                       \* 0b0000111111111111
MaskPerms == 511                             \* 0b0000000111111111
ModeTypes == {8, 10, 14}                     \* 0b1000, 0b1010, 0b1110

\* int.from_bytes(bs, "big")
RECURSIVE IntFromBytes(_)
IntFromBytes(bs) ==
    IF bs = <<>> THEN 0
    ELSE IntFromBytes(SubSeq(bs, 1, Len(bs) - 1)) * 256 + bs[Len(bs)]

\* a & b on non-negative integers
RECURSIVE BitAnd(_, _)
BitAnd(a, b) ==
    IF a = 0 \/ b = 0 THEN 0
    ELSE (a % 2) * (b % 2) + 2 * BitAnd(a \div 2, b \div 2)

\* format(int.from_bytes(bs, "big"), "040x") for the 20 bytes of an identifier
RECURSIVE HexOfBytes(_)
HexOfBytes(bs) ==
    IF bs = <<>> THEN <<>>
    ELSE <<HexChar(Head(bs) \div 16), HexChar(Head(bs) % 16)>> \o HexOfBytes(Tail(bs))

\* 8 * ceil(idx / 8)
AlignEight(idx) == 8 * ((idx + 7) \div 8)

\* GitIndex(version, entries)
GitIndex(version, entries) == [version |-> version, entries |-> entries]

\* The name of the entry whose fixed part ends before idx, and the idx after
\* it, for the name length written in the flags.
EntryName(content, idx, name_length) ==
    IF name_length < NameSentinel
    THEN IF idx + name_length >= Len(content) THEN Raise("IndexError")
         ELSE IF content[idx + name_length + 1] # NUL THEN Raise("AssertionError")
         ELSE Ret([raw_name |-> PySlice(content, idx, idx + name_length),
                   idx |-> idx + name_length + 1])
    ELSE LET null_idx == Find(content, NUL, idx + NameSentinel)
         IN  Ret([raw_name |-> PySlice(content, idx, null_idx), idx |-> null_idx + 1])

\* flag_stage = flags & 0b0011000000000000
FlagStage(flags) == BitAnd(flags, MaskStage)

\* One turn of the loop of index_read: the entry at idx and the idx of the
\* next one.
IndexEntryAt(content, idx) ==
    LET at(k, n) == IntFromBytes(PySlice(content, idx + k, idx + k + n))
        mode == at(26, 2)
        flags == at(60, 2)
        named == EntryName(content, idx + EntryFixedLen, BitAnd(flags, MaskNameLength))
    IN  IF at(24, 2) # 0 THEN Raise("AssertionError")
        ELSE IF mode \div 4096 \notin ModeTypes THEN Raise("AssertionError")
        ELSE IF BitAnd(flags, MaskExtended) # 0 THEN Raise("AssertionError")
        ELSE IF named.tag = "raise" THEN named
        ELSE IF \E k \in 1..Len(named.val.raw_name) : named.val.raw_name[k] >= 128
        THEN Raise("UnicodeDecodeError")
        ELSE Ret([entry |-> [ctime |-> <<at(0, 4), at(4, 4)>>,
                             mtime |-> <<at(8, 4), at(12, 4)>>,
                             dev |-> at(16, 4),
                             ino |-> at(20, 4),
                             mode_type |-> mode \div 4096,
                             mode_perms |-> BitAnd(mode, MaskPerms),
                             uid |-> at(28, 4),
                             gid |-> at(32, 4),
                             fsize |-> at(36, 4),
                             sha |-> HexOfBytes(PySlice(content, idx + 40, idx + 60)),
                             flag_assume_valid |-> BitAnd(flags, MaskAssumeValid) # 0,
                             flag_stage |-> FlagStage(flags),
                             name |-> named.val.raw_name],
                  idx |-> AlignEight(named.val.idx)])

\* for i in range(0, count), from the i-th turn with the entries read so far
RECURSIVE IndexEntriesFrom(_, _, _, _, _)
IndexNext(content, r, i, count, entries) ==
    IF r.tag = "raise" THEN r
    ELSE IndexEntriesFrom(content, r.val.idx, i + 1, count, Append(entries, r.val.entry))

IndexEntriesFrom(content, idx, i, count, entries) ==
    IF i >= count THEN Ret(entries)
    ELSE IndexNext(content, IndexEntryAt(content, idx), i, count, entries)

\* index_read(repo) on the file system w whose git directory is gitdir
index_read(w, gitdir) ==
    LET index_file == Append(gitdir, NameIndex)
        raw == w[index_file].data
        entries == IndexEntriesFrom(PyFrom(raw, 12), 0, 0,
                                    IntFromBytes(PySlice(raw, 8, 12)), <<>>)
    IN  IF ~PathExists(w, index_file) THEN Ret(GitIndex(2, <<>>))
        ELSE IF PySlice(raw, 0, 4) # SigDIRC THEN Raise("AssertionError")
        ELSE IF IntFromBytes(PySlice(raw, 4, 8)) # 2 THEN Raise("AssertionError")
        ELSE IF entries.tag = "raise" THEN entries
        ELSE Ret(GitIndex(2, entries.val))

----------------------------------------------------------------------------
\* n in width bytes, most significant first
RECURSIVE BigEndian(_, _)
BigEndian(n, width) ==
    IF width = 0 THEN <<>> ELSE BigEndian(n \div 256, width - 1) \o <<n % 256>>

\* An entry as git lays it out: the 62 fixed bytes, the name, and one to
\* eight NUL bytes up to a multiple of eight.
EntryBytes(e) ==
    LET body == BigEndian(1, 4) \o BigEndian(2, 4) \o BigEndian(3, 4) \o BigEndian(4, 4)
                    \o BigEndian(5, 4) \o BigEndian(6, 4) \o BigEndian(0, 2)
                    \o BigEndian(e.mode, 2) \o BigEndian(7, 4) \o BigEndian(8, 4)
                    \o BigEndian(9, 4) \o [i \in 1..RawShaLen |-> 170 + i]
                    \o BigEndian(e.flags, 2) \o e.name
    IN  body \o [i \in 1..(AlignEight(Len(body) + 1) - Len(body)) |-> NUL]

RECURSIVE EntriesBytes(_)
EntriesBytes(es) == IF es = <<>> THEN <<>> ELSE EntryBytes(Head(es)) \o EntriesBytes(Tail(es))

IndexFile(in) ==
    in.sig \o BigEndian(in.version, 4) \o BigEndian(Len(in.entries), 4)
        \o EntriesBytes(in.entries)

IndexEntry(flags, name, mode) == [flags |-> flags, name |-> name, mode |-> mode]

\* The first entry of a file: every value of the four high bits of the flags
\* with the length of the name in the low twelve; a length one too long; the
\* length 0xFFF on a short name; the mode of a directory.
FirstEntries ==
    {IndexEntry(hi * 4096 + Len(name), name, 33188) :
         hi \in 0..15, name \in {<<97>>, <<98, 99>>}}
        \cup { IndexEntry(2, <<97>>, 33188),
               IndexEntry(8192 + NameSentinel, <<97>>, 33188),
               IndexEntry(1, <<97>>, 16877) }

MoreEntries ==
    { IndexEntry(1, <<122>>, 33188),
      IndexEntry(8192 + 1, <<122>>, 33188),
      IndexEntry(32768 + 4096 + 1, <<122>>, 40960) }

EntryLists ==
    UNION {{es \in [1..n -> FirstEntries \cup MoreEntries] :
                \A k \in 1..n : es[k] \in (IF k = 1 THEN FirstEntries ELSE MoreEntries)} :
           n \in 0..MaxEntries}

IndexInputs ==
    {[present |-> TRUE, sig |-> SigDIRC, version |-> 2, entries |-> es] : es \in EntryLists}
        \cup { [present |-> FALSE, sig |-> SigDIRC, version |-> 2, entries |-> <<>>],
               [present |-> TRUE, sig |-> <<68, 73, 82, 88>>, version |-> 2, entries |-> <<>>],
               [present |-> TRUE, sig |-> SigDIRC, version |-> 3, entries |-> <<>>] }

InitIndex ==
    /\ dirs = {}
    /\ files = <<>>
    /\ refs = <<>>
    /\ mem = None
    /\ arg \in IndexInputs
    /\ out = None
    /\ pc = "start"
    /\ nops = 0
    /\ fsys = IF arg.present
              THEN [q \in {<<DotGit, NameIndex>>} |-> FileEntry(IndexFile(arg))]
              ELSE <<>>

\* index = index_read(repo)
IndexRead ==
    /\ pc = "start"
    /\ \E r \in {index_read(fsys, <<DotGit>>)} : out' = r
    /\ pc' = "read"
    /\ UNCHANGED <<dirs, files, refs, mem, arg, nops, fsys>>

NextIndex == IndexRead

SpecIndex == InitIndex /\ [][NextIndex]_vars

----------------------------------------------------------------------------
\* C20: in every entry index_read returns, flag_stage is the value 0..3 of
\* bits 13-12 of the entry's flags, flag_assume_valid is bit 15, and the
\* name has as many bytes as the low twelve bits say (below 0xFFF).
C20_FlagsDecoded ==
    (pc = "read" /\ out.tag = "ok") =>
        \A i \in 1..Len(out.val.entries) :
            LET flags == arg.entries[i].flags
                e == out.val.entries[i]
            IN  /\ e.flag_stage \in 0..3
                /\ e.flag_stage = (flags \div 4096) % 4
                /\ e.flag_assume_valid = (flags >= 32768)
                /\ (flags % 4096 < NameSentinel) => Len(e.name) = flags % 4096

----------------------------------------------------------------------------
\* C21: on every state of the reference files, also one where the files
\* point at each other in a cycle, ref_resolve ends with an identifier or
\* with None.
C21_ResolveEnds ==
    pc = "resolved" => out.tag \in {"ok", "none"}

=============================================================================
